---- MODULE Spec2Model ----
(***************************************************************************)
(* A model of the command interpreter of pkg/shell: the tokenizer          *)
(* (DefaultParser.Parse, a quote/escape state machine over the runes of a  *)
(* line), the redirection resolver (ArgumentParser.Parse), the redirection *)
(* applier (RedirectionManager.ApplyRedirections) and the REPL             *)
(* (Shell.Run).                                                            *)
(*                                                                         *)
(* A string is a sequence of one-character strings, one per rune.          *)
(***************************************************************************)
EXTENDS Integers, Sequences, FiniteSets, TLC

\* Longest line handed to Parse in ParseSpec.
MaxLen == 5

\* The runes of ParseSpec's lines: two ordinary runes, a whitespace rune, the
\* two quote runes and the backslash.
Alphabet == {"a", "b", " ", "'", "\"", "\\"}

\* unicode.IsSpace, on the whitespace runes the model draws.
IsSpace(ch) == ch \in {" ", "\t", "\n", "\r"}

Nil == "nil"
ErrUnclosedQuote == "unclosed quote"
ErrUnescapedCharacter == "unescaped character"
ErrExit == "exit"
ErrNotFound == "not found"
\* io.EOF, and any other error of the underlying reader.
ErrEOF == "EOF"
ErrRead == "read error"

stateOutside == "stateOutside"
stateSingleQuote == "stateSingleQuote"
stateDoubleQuote == "stateDoubleQuote"

VARIABLES
    line,         \* Parse: the line being tokenized
    pos,          \* Parse: runes the rune reader has handed out
    steps,        \* Parse: executions of the loop body so far
    currState,    \* Parse: currState
    escaping,     \* Parse: escaping
    tokenBuffer,  \* Parse: the runes of the pending token
    args,         \* Parse: the tokens flushed so far
    status,       \* Parse: "scanning" in the loop, "returned" after return
    err           \* Parse: the error returned (Nil: none)

pvars == <<line, pos, steps, currState, escaping, tokenBuffer, args, status, err>>

VARIABLES
    stdin,          \* the reader given to New: the lines still unread (each
                    \* ended by a line feed), the unterminated rest, and the
                    \* error the reader gives once the lines are used up
    pc,             \* Run: where the loop stands
    lineNo,         \* Run: lines read so far
    runLine,        \* Run: line
    parseErr,       \* Run: err after shell.parser.Parse
    parsedArgs,     \* Run: parsedArgs
    parsedCommand,  \* Run: parsedCommand
    ioBindings,     \* Run: ioBindings
    cleanup,        \* Run: cleanup
    deferred,       \* Run: the deferred cleanup calls, oldest first
    handles,        \* every file the opener has opened, with its close calls
    shellOut,       \* Shell.Out
    shellErr,       \* Shell.Err
    written,        \* every write to a stream, in order
    ran,            \* every built-in call and external execution, in order
    retErr,         \* what Run returned ("running" until it returns)
    files,          \* the file system: each target's existence and content
    exec            \* the last call of Execute: its lookup, what became of
                    \* the program, and what it returned

rvars == <<stdin, pc, lineNo, runLine, parseErr, parsedArgs, parsedCommand,
           ioBindings, cleanup, deferred, handles, shellOut, shellErr, written,
           ran, retErr, files, exec>>

VARIABLES
    res,            \* a call of ArgumentParser.Parse: its tokens, and what it
                    \* returned
    app,            \* a call of ApplyRedirections: its specs and base
                    \* bindings, what it returned, the files its opener
                    \* opened and the calls of the release action since
    cdCall          \* a call of the cd built-in: its arguments, HOME, the
                    \* outcome os.Chdir will have, and what the call did

avars == <<res, app, cdCall>>

vars == <<pvars, rvars, avars>>

(***************************************************************************)
(* tokenBuffer                                                             *)
(***************************************************************************)
isEmpty(tb) == Len(tb) = 0

appendRuneTwice(tb, r) == Append(Append(tb, r), r)

appendRune(tb, r) == Append(tb, r)

\* flushIfNotEmpty without its emptiness test.
flushAlways(tb, as) == [args |-> Append(as, tb), tokenBuffer |-> <<>>]

\* flushIfNotEmpty without the Reset of the builder.
flushKeepsBuffer(tb, as) ==
    IF ~isEmpty(tb)
    THEN [args |-> Append(as, tb), tokenBuffer |-> tb]
    ELSE [args |-> as, tokenBuffer |-> tb]

\* The token list and the buffer after flushIfNotEmpty.
flushIfNotEmpty(tb, as) ==
    IF ~isEmpty(tb)
    THEN [args |-> Append(as, tb), tokenBuffer |-> <<>>]
    ELSE [args |-> as, tokenBuffer |-> tb]

(***************************************************************************)
(* The three state handlers.  Each returns the new currState, escaping and *)
(* args, and the token buffer as the handler leaves it.                    *)
(***************************************************************************)
\* handleStateOutside testing for whitespace before the escaping flag.
handleStateOutsideSpaceFirst(ch, st, tb, esc, as) ==
    IF IsSpace(ch)
    THEN LET f == flushIfNotEmpty(tb, as)
         IN  [currState |-> st, escaping |-> FALSE, args |-> f.args,
              tokenBuffer |-> f.tokenBuffer]
    ELSE IF esc
    THEN [currState |-> st, escaping |-> FALSE, args |-> as,
          tokenBuffer |-> appendRune(tb, ch)]
    ELSE IF ch = "'"
    THEN [currState |-> stateSingleQuote, escaping |-> esc, args |-> as,
          tokenBuffer |-> tb]
    ELSE IF ch = "\""
    THEN [currState |-> stateDoubleQuote, escaping |-> esc, args |-> as,
          tokenBuffer |-> tb]
    ELSE IF ch = "\\"
    THEN [currState |-> st, escaping |-> TRUE, args |-> as, tokenBuffer |-> tb]
    ELSE [currState |-> st, escaping |-> esc, args |-> as,
          tokenBuffer |-> appendRune(tb, ch)]

\* handleStateOutside taking white space for an ordinary rune.
handleStateOutsideKeepsSpace(ch, st, tb, esc, as) ==
    IF esc
    THEN [currState |-> st, escaping |-> FALSE, args |-> as,
          tokenBuffer |-> appendRune(tb, ch)]
    ELSE IF IsSpace(ch)
    THEN [currState |-> st, escaping |-> esc, args |-> as,
          tokenBuffer |-> appendRune(tb, ch)]
    ELSE IF ch = "'"
    THEN [currState |-> stateSingleQuote, escaping |-> esc, args |-> as,
          tokenBuffer |-> tb]
    ELSE IF ch = "\""
    THEN [currState |-> stateDoubleQuote, escaping |-> esc, args |-> as,
          tokenBuffer |-> tb]
    ELSE IF ch = "\\"
    THEN [currState |-> st, escaping |-> TRUE, args |-> as, tokenBuffer |-> tb]
    ELSE [currState |-> st, escaping |-> esc, args |-> as,
          tokenBuffer |-> appendRune(tb, ch)]

\* handleStateOutside leaving the escaping flag set after the escaped rune.
handleStateOutsideKeepsEscaping(ch, st, tb, esc, as) ==
    IF esc
    THEN [currState |-> st, escaping |-> TRUE, args |-> as,
          tokenBuffer |-> appendRune(tb, ch)]
    ELSE IF IsSpace(ch)
    THEN LET f == flushIfNotEmpty(tb, as)
         IN  [currState |-> st, escaping |-> esc, args |-> f.args,
              tokenBuffer |-> f.tokenBuffer]
    ELSE IF ch = "'"
    THEN [currState |-> stateSingleQuote, escaping |-> esc, args |-> as,
          tokenBuffer |-> tb]
    ELSE IF ch = "\""
    THEN [currState |-> stateDoubleQuote, escaping |-> esc, args |-> as,
          tokenBuffer |-> tb]
    ELSE IF ch = "\\"
    THEN [currState |-> st, escaping |-> TRUE, args |-> as, tokenBuffer |-> tb]
    ELSE [currState |-> st, escaping |-> esc, args |-> as,
          tokenBuffer |-> appendRune(tb, ch)]

handleStateOutside(ch, st, tb, esc, as) ==
    IF esc
    THEN [currState |-> st, escaping |-> FALSE, args |-> as,
          tokenBuffer |-> appendRune(tb, ch)]
    ELSE IF IsSpace(ch)
    THEN LET f == flushIfNotEmpty(tb, as)
         IN  [currState |-> st, escaping |-> esc, args |-> f.args,
              tokenBuffer |-> f.tokenBuffer]
    ELSE IF ch = "'"
    THEN [currState |-> stateSingleQuote, escaping |-> esc, args |-> as,
          tokenBuffer |-> tb]
    ELSE IF ch = "\""
    THEN [currState |-> stateDoubleQuote, escaping |-> esc, args |-> as,
          tokenBuffer |-> tb]
    ELSE IF ch = "\\"
    THEN [currState |-> st, escaping |-> TRUE, args |-> as, tokenBuffer |-> tb]
    ELSE [currState |-> st, escaping |-> esc, args |-> as,
          tokenBuffer |-> appendRune(tb, ch)]

\* handleStateSingleQuote taking a backslash as the start of an escape.
handleStateSingleQuoteEscapes(ch, st, tb, esc, as) ==
    IF esc
    THEN [currState |-> st, escaping |-> FALSE, args |-> as,
          tokenBuffer |-> appendRune(tb, ch)]
    ELSE IF ch = "'"
    THEN [currState |-> stateOutside, escaping |-> esc, args |-> as,
          tokenBuffer |-> tb]
    ELSE IF ch = "\\"
    THEN [currState |-> st, escaping |-> TRUE, args |-> as, tokenBuffer |-> tb]
    ELSE [currState |-> st, escaping |-> esc, args |-> as,
          tokenBuffer |-> appendRune(tb, ch)]

handleStateSingleQuote(ch, st, tb, esc, as) ==
    IF ch = "'"
    THEN [currState |-> stateOutside, escaping |-> esc, args |-> as,
          tokenBuffer |-> tb]
    ELSE [currState |-> st, escaping |-> esc, args |-> as,
          tokenBuffer |-> appendRune(tb, ch)]

\* handleStateDoubleQuote ending the token at the closing quote.
handleStateDoubleQuoteFlushes(ch, st, tb, esc, as) ==
    IF esc
    THEN [currState |-> st, escaping |-> FALSE, args |-> as,
          tokenBuffer |->
              appendRune(IF ch # "\\" /\ ch # "\""
                         THEN appendRune(tb, "\\") ELSE tb, ch)]
    ELSE IF ch = "\""
    THEN [currState |-> stateOutside, escaping |-> esc,
          args |-> flushIfNotEmpty(tb, as).args,
          tokenBuffer |-> flushIfNotEmpty(tb, as).tokenBuffer]
    ELSE IF ch = "\\"
    THEN [currState |-> st, escaping |-> TRUE, args |-> as, tokenBuffer |-> tb]
    ELSE [currState |-> st, escaping |-> esc, args |-> as,
          tokenBuffer |-> appendRune(tb, ch)]

\* handleStateDoubleQuote dropping the backslash of every escape.
handleStateDoubleQuoteDropsBackslash(ch, st, tb, esc, as) ==
    IF esc
    THEN [currState |-> st, escaping |-> FALSE, args |-> as,
          tokenBuffer |-> appendRune(tb, ch)]
    ELSE IF ch = "\""
    THEN [currState |-> stateOutside, escaping |-> esc, args |-> as,
          tokenBuffer |-> tb]
    ELSE IF ch = "\\"
    THEN [currState |-> st, escaping |-> TRUE, args |-> as, tokenBuffer |-> tb]
    ELSE [currState |-> st, escaping |-> esc, args |-> as,
          tokenBuffer |-> appendRune(tb, ch)]

handleStateDoubleQuote(ch, st, tb, esc, as) ==
    IF esc
    THEN [currState |-> st, escaping |-> FALSE, args |-> as,
          tokenBuffer |->
              appendRune(IF ch # "\\" /\ ch # "\""
                         THEN appendRune(tb, "\\") ELSE tb, ch)]
    ELSE IF ch = "\""
    THEN [currState |-> stateOutside, escaping |-> esc, args |-> as,
          tokenBuffer |-> tb]
    ELSE IF ch = "\\"
    THEN [currState |-> st, escaping |-> TRUE, args |-> as, tokenBuffer |-> tb]
    ELSE [currState |-> st, escaping |-> esc, args |-> as,
          tokenBuffer |-> appendRune(tb, ch)]

\* The switch on currState in the loop body of Parse.
parseSwitch(ch, st, tb, esc, as) ==
    CASE st = stateOutside -> handleStateOutside(ch, st, tb, esc, as)
      [] st = stateSingleQuote -> handleStateSingleQuote(ch, st, tb, esc, as)
      [] st = stateDoubleQuote -> handleStateDoubleQuote(ch, st, tb, esc, as)

\* ReadRune consuming the rune after a whitespace rune along with it.
ReadRuneSkipsAfterSpace(l, p) ==
    IF p >= Len(l)
    THEN [eof |-> TRUE, ch |-> "", pos |-> p]
    ELSE [eof |-> FALSE, ch |-> l[p + 1],
          pos |-> IF IsSpace(l[p + 1]) /\ p + 2 <= Len(l) THEN p + 2 ELSE p + 1]

\* runeReader.ReadRune: the next rune and the reader's new position, or EOF.
ReadRune(l, p) ==
    IF p >= Len(l)
    THEN [eof |-> TRUE, ch |-> "", pos |-> p]
    ELSE [eof |-> FALSE, ch |-> l[p + 1], pos |-> p + 1]

\* parseEnd testing the escaping flag before the quote states.
parseEndEscapingFirst(st, tb, esc, as) ==
    IF esc
    THEN [tokens |-> <<>>, err |-> ErrUnescapedCharacter]
    ELSE IF st = stateSingleQuote \/ st = stateDoubleQuote
    THEN [tokens |-> <<>>, err |-> ErrUnclosedQuote]
    ELSE [tokens |-> flushIfNotEmpty(tb, as).args, err |-> Nil]

\* What Parse returns once the reader is at EOF.
parseEnd(st, tb, esc, as) ==
    IF st = stateSingleQuote \/ st = stateDoubleQuote
    THEN [tokens |-> <<>>, err |-> ErrUnclosedQuote]
    ELSE IF esc
    THEN [tokens |-> <<>>, err |-> ErrUnescapedCharacter]
    ELSE [tokens |-> flushIfNotEmpty(tb, as).args, err |-> Nil]

\* Parse as a function of the line: the loop from position p on.
RECURSIVE parseFrom(_, _, _, _, _, _)
parseFrom(l, p, st, tb, esc, as) ==
    LET r == ReadRune(l, p)
    IN  IF r.eof
        THEN parseEnd(st, tb, esc, as)
        ELSE LET h == parseSwitch(r.ch, st, tb, esc, as)
             IN  parseFrom(l, r.pos, h.currState, h.tokenBuffer, h.escaping,
                           h.args)

Parse(l) == parseFrom(l, 0, stateOutside, <<>>, FALSE, <<>>)

(***************************************************************************)
(* Redirections: handlers, the manager and the argument parser.            *)
(***************************************************************************)
ErrMissingRedirectDestination == "missing redirect destination"
ErrUnsupportedOperator == "unsupported redirection operator"
ErrOpenFailed == "failed to open"
ErrMissingTarget == "missing target for redirection"
\* The panic of a method call on the nil handler GetHandler returns with its
\* error.
ErrNilHandler == "panic: nil handler"

\* The handlers in the order NewRedirectionManager registers them.
handlers ==
    << [stream |-> "Stdout", Overwrite |-> TRUE],
       [stream |-> "Stdout", Overwrite |-> FALSE],
       [stream |-> "Stderr", Overwrite |-> TRUE],
       [stream |-> "Stderr", Overwrite |-> FALSE] >>

\* knownOps with the input operator registered as well.
knownOpsWithInput ==
    << <<">">>, <<"1", ">">>, <<">", ">">>, <<"1", ">", ">">>,
       <<"2", ">">>, <<"2", ">", ">">>, <<"<">> >>

\* The operators in the order NewRedirectionManager registers them.
knownOps ==
    << <<">">>, <<"1", ">">>, <<">", ">">>, <<"1", ">", ">">>,
       <<"2", ">">>, <<"2", ">", ">">> >>

\* StdoutRedirectionHandler.CanHandle and StderrRedirectionHandler.CanHandle.
CanHandle(h, operator) ==
    IF h.stream = "Stdout"
    THEN IF h.Overwrite
         THEN operator = <<">">> \/ operator = <<"1", ">">>
         ELSE operator = <<">", ">">> \/ operator = <<"1", ">", ">">>
    ELSE IF h.Overwrite
         THEN operator = <<"2", ">">>
         ELSE operator = <<"2", ">", ">">>

\* GetHandler: the index of the first handler that can handle the operator,
\* 0 with the unsupported-operator error.
GetHandler(operator) ==
    IF \E i \in 1..Len(handlers) : CanHandle(handlers[i], operator)
    THEN CHOOSE i \in 1..Len(handlers) :
             /\ CanHandle(handlers[i], operator)
             /\ \A j \in 1..(i - 1) : ~CanHandle(handlers[j], operator)
    ELSE 0

\* Validate of both handlers.
Validate(spec) ==
    IF spec.Target = <<>> THEN ErrMissingRedirectDestination ELSE Nil

\* ValidateSpecs looking at the first spec only.
ValidateSpecsFirstOnly(specs) ==
    IF specs = <<>> THEN Nil
    ELSE IF GetHandler(Head(specs).Operator) = 0 THEN ErrUnsupportedOperator
    ELSE Validate(Head(specs))

\* ValidateSpecs: the first error in the order of the specs.
RECURSIVE ValidateSpecs(_)
ValidateSpecs(specs) ==
    IF specs = <<>> THEN Nil
    ELSE IF GetHandler(Head(specs).Operator) = 0 THEN ErrUnsupportedOperator
    ELSE IF Validate(Head(specs)) # Nil THEN Validate(Head(specs))
    ELSE ValidateSpecs(Tail(specs))

\* The operator set without the overwrite operators.
operatorsAppendOnly == {<<">", ">">>, <<"1", ">", ">">>, <<"2", ">", ">">>}

\* NewArgumentParser: the operator set of the argument parser.
operators == {knownOps[i] : i \in 1..Len(knownOps)}

\* argumentParseFrom stepping over the operator only, so that its target is
\* scanned again.
RECURSIVE argumentParseFromRescansTarget(_, _, _)
argumentParseFromRescansTarget(as, i, pcmd) ==
    IF i >= Len(as)
    THEN [Args |-> pcmd.Args, Redirections |-> pcmd.Redirections,
          err |-> Nil, errOp |-> <<>>, errPos |-> 0]
    ELSE IF as[i + 1] \in operators
    THEN IF i = Len(as) - 1
         THEN [Args |-> pcmd.Args, Redirections |-> pcmd.Redirections,
               err |-> ErrMissingTarget, errOp |-> as[i + 1], errPos |-> i]
         ELSE argumentParseFromRescansTarget(as, i + 1,
                  [pcmd EXCEPT !.Redirections =
                       Append(@, [Operator |-> as[i + 1], Target |-> as[i + 2],
                                  Index |-> i])])
    ELSE argumentParseFromRescansTarget(as, i + 1,
             [pcmd EXCEPT !.Args = Append(@, as[i + 1])])

\* argumentParseFrom taking an operator at the last index as an argument.
RECURSIVE argumentParseFromNoTargetCheck(_, _, _)
argumentParseFromNoTargetCheck(as, i, pcmd) ==
    IF i >= Len(as)
    THEN [Args |-> pcmd.Args, Redirections |-> pcmd.Redirections,
          err |-> Nil, errOp |-> <<>>, errPos |-> 0]
    ELSE IF as[i + 1] \in operators /\ i < Len(as) - 1
    THEN argumentParseFromNoTargetCheck(as, i + 2,
             [pcmd EXCEPT !.Redirections =
                  Append(@, [Operator |-> as[i + 1], Target |-> as[i + 2],
                             Index |-> i])])
    ELSE argumentParseFromNoTargetCheck(as, i + 1,
             [pcmd EXCEPT !.Args = Append(@, as[i + 1])])

\* ArgumentParser.Parse from index i (0-based) on.
RECURSIVE argumentParseFrom(_, _, _)
argumentParseFrom(as, i, pcmd) ==
    IF i >= Len(as)
    THEN [Args |-> pcmd.Args, Redirections |-> pcmd.Redirections,
          err |-> Nil, errOp |-> <<>>, errPos |-> 0]
    ELSE IF as[i + 1] \in operators
    THEN IF i = Len(as) - 1
         THEN [Args |-> pcmd.Args, Redirections |-> pcmd.Redirections,
               err |-> ErrMissingTarget, errOp |-> as[i + 1], errPos |-> i]
         ELSE argumentParseFrom(as, i + 2,
                  [pcmd EXCEPT !.Redirections =
                       Append(@, [Operator |-> as[i + 1], Target |-> as[i + 2],
                                  Index |-> i])])
    ELSE argumentParseFrom(as, i + 1, [pcmd EXCEPT !.Args = Append(@, as[i + 1])])

ArgumentParserParse(as) ==
    argumentParseFrom(as, 0, [Args |-> <<>>, Redirections |-> <<>>])

\* A stream: one of the three given to New, or the file of handle id.
BaseStream(name) == [kind |-> name, id |-> 0]
FileStream(h) == [kind |-> "file", id |-> h]

\* The close calls of the cleanup functions fs (handle ids) on the handles.
RunCleanup(fs, hs) ==
    [h \in DOMAIN hs |->
        [hs[h] EXCEPT !.closes = @ + Cardinality({j \in 1..Len(fs) : fs[j] = h})]]

\* applyFrom leaving the files it opened open when a later open fails.
RECURSIVE applyFromLeaks(_, _, _, _, _, _, _, _)
applyFromLeaks(specs, i, base, bindings, cleanupFuncs, hs, failAt, ln) ==
    IF i > Len(specs)
    THEN [bindings |-> bindings,
          cleanup |-> [isNil |-> FALSE, funcs |-> cleanupFuncs],
          err |-> Nil, errTarget |-> <<>>, handles |-> hs]
    ELSE IF i = failAt
    THEN [bindings |-> base,
          cleanup |-> [isNil |-> TRUE, funcs |-> <<>>],
          err |-> ErrOpenFailed, errTarget |-> specs[i].Target,
          handles |-> hs]
    ELSE IF GetHandler(specs[i].Operator) = 0
    THEN \* handler is nil: handler.Apply dereferences a nil interface
         [bindings |-> bindings,
          cleanup |-> [isNil |-> TRUE, funcs |-> <<>>],
          err |-> ErrNilHandler, errTarget |-> specs[i].Target,
          handles |-> hs]
    ELSE LET h == handlers[GetHandler(specs[i].Operator)]
             file == Len(hs) + 1
             opened == Append(hs, [target |-> specs[i].Target,
                                   append |-> ~h.Overwrite,
                                   truncate |-> h.Overwrite,
                                   line |-> ln, closes |-> 0])
         IN  applyFromLeaks(specs, i + 1, base,
                       IF h.stream = "Stdout"
                       THEN [bindings EXCEPT !.Stdout = FileStream(file)]
                       ELSE [bindings EXCEPT !.Stderr = FileStream(file)],
                       Append(cleanupFuncs, file), opened, failAt, ln)

\* applyFrom keeping the first file bound to a stream.
RECURSIVE applyFromFirstWins(_, _, _, _, _, _, _, _)
applyFromFirstWins(specs, i, base, bindings, cleanupFuncs, hs, failAt, ln) ==
    IF i > Len(specs)
    THEN [bindings |-> bindings,
          cleanup |-> [isNil |-> FALSE, funcs |-> cleanupFuncs],
          err |-> Nil, errTarget |-> <<>>, handles |-> hs]
    ELSE IF i = failAt
    THEN [bindings |-> base,
          cleanup |-> [isNil |-> TRUE, funcs |-> <<>>],
          err |-> ErrOpenFailed, errTarget |-> specs[i].Target,
          handles |-> RunCleanup(cleanupFuncs, hs)]
    ELSE IF GetHandler(specs[i].Operator) = 0
    THEN \* handler is nil: handler.Apply dereferences a nil interface
         [bindings |-> bindings,
          cleanup |-> [isNil |-> TRUE, funcs |-> <<>>],
          err |-> ErrNilHandler, errTarget |-> specs[i].Target,
          handles |-> hs]
    ELSE LET h == handlers[GetHandler(specs[i].Operator)]
             file == Len(hs) + 1
             opened == Append(hs, [target |-> specs[i].Target,
                                   append |-> ~h.Overwrite,
                                   truncate |-> h.Overwrite,
                                   line |-> ln, closes |-> 0])
         IN  applyFromFirstWins(specs, i + 1, base,
                       IF h.stream = "Stdout"
                       THEN IF bindings.Stdout = base.Stdout
                            THEN [bindings EXCEPT !.Stdout = FileStream(file)]
                            ELSE bindings
                       ELSE IF bindings.Stderr = base.Stderr
                            THEN [bindings EXCEPT !.Stderr = FileStream(file)]
                            ELSE bindings,
                       Append(cleanupFuncs, file), opened, failAt, ln)

\* applyFrom with every handler opening with O_TRUNC.
RECURSIVE applyFromAlwaysTruncates(_, _, _, _, _, _, _, _)
applyFromAlwaysTruncates(specs, i, base, bindings, cleanupFuncs, hs, failAt, ln) ==
    IF i > Len(specs)
    THEN [bindings |-> bindings,
          cleanup |-> [isNil |-> FALSE, funcs |-> cleanupFuncs],
          err |-> Nil, errTarget |-> <<>>, handles |-> hs]
    ELSE IF i = failAt
    THEN [bindings |-> base,
          cleanup |-> [isNil |-> TRUE, funcs |-> <<>>],
          err |-> ErrOpenFailed, errTarget |-> specs[i].Target,
          handles |-> RunCleanup(cleanupFuncs, hs)]
    ELSE IF GetHandler(specs[i].Operator) = 0
    THEN \* handler is nil: handler.Apply dereferences a nil interface
         [bindings |-> bindings,
          cleanup |-> [isNil |-> TRUE, funcs |-> <<>>],
          err |-> ErrNilHandler, errTarget |-> specs[i].Target,
          handles |-> hs]
    ELSE LET h == handlers[GetHandler(specs[i].Operator)]
             file == Len(hs) + 1
             opened == Append(hs, [target |-> specs[i].Target,
                                   append |-> FALSE,
                                   truncate |-> TRUE,
                                   line |-> ln, closes |-> 0])
         IN  applyFromAlwaysTruncates(specs, i + 1, base,
                       IF h.stream = "Stdout"
                       THEN [bindings EXCEPT !.Stdout = FileStream(file)]
                       ELSE [bindings EXCEPT !.Stderr = FileStream(file)],
                       Append(cleanupFuncs, file), opened, failAt, ln)

\* applyFrom closing the file a stream was bound to when a later request
\* rebinds the stream.
RECURSIVE applyFromClosesOverridden(_, _, _, _, _, _, _, _)
applyFromClosesOverridden(specs, i, base, bindings, cleanupFuncs, hs, failAt, ln) ==
    IF i > Len(specs)
    THEN [bindings |-> bindings,
          cleanup |-> [isNil |-> FALSE, funcs |-> cleanupFuncs],
          err |-> Nil, errTarget |-> <<>>, handles |-> hs]
    ELSE IF i = failAt
    THEN [bindings |-> base,
          cleanup |-> [isNil |-> TRUE, funcs |-> <<>>],
          err |-> ErrOpenFailed, errTarget |-> specs[i].Target,
          handles |-> RunCleanup(cleanupFuncs, hs)]
    ELSE IF GetHandler(specs[i].Operator) = 0
    THEN \* handler is nil: handler.Apply dereferences a nil interface
         [bindings |-> bindings,
          cleanup |-> [isNil |-> TRUE, funcs |-> <<>>],
          err |-> ErrNilHandler, errTarget |-> specs[i].Target,
          handles |-> hs]
    ELSE LET h == handlers[GetHandler(specs[i].Operator)]
             file == Len(hs) + 1
             opened == Append(hs, [target |-> specs[i].Target,
                                   append |-> ~h.Overwrite,
                                   truncate |-> h.Overwrite,
                                   line |-> ln, closes |-> 0])
         IN  applyFromClosesOverridden(specs, i + 1, base,
                       IF h.stream = "Stdout"
                       THEN [bindings EXCEPT !.Stdout = FileStream(file)]
                       ELSE [bindings EXCEPT !.Stderr = FileStream(file)],
                       Append(cleanupFuncs, file),
                       IF (IF h.stream = "Stdout" THEN bindings.Stdout ELSE bindings.Stderr).kind = "file"
                       THEN [opened EXCEPT
                                ![((IF h.stream = "Stdout" THEN bindings.Stdout ELSE bindings.Stderr)).id].closes = @ + 1]
                       ELSE opened,
                       failAt, ln)

\* applyFrom with the stderr handlers binding the output slot as well.
RECURSIVE applyFromStderrTakesStdout(_, _, _, _, _, _, _, _)
applyFromStderrTakesStdout(specs, i, base, bindings, cleanupFuncs, hs, failAt, ln) ==
    IF i > Len(specs)
    THEN [bindings |-> bindings,
          cleanup |-> [isNil |-> FALSE, funcs |-> cleanupFuncs],
          err |-> Nil, errTarget |-> <<>>, handles |-> hs]
    ELSE IF i = failAt
    THEN [bindings |-> base,
          cleanup |-> [isNil |-> TRUE, funcs |-> <<>>],
          err |-> ErrOpenFailed, errTarget |-> specs[i].Target,
          handles |-> RunCleanup(cleanupFuncs, hs)]
    ELSE IF GetHandler(specs[i].Operator) = 0
    THEN \* handler is nil: handler.Apply dereferences a nil interface
         [bindings |-> bindings,
          cleanup |-> [isNil |-> TRUE, funcs |-> <<>>],
          err |-> ErrNilHandler, errTarget |-> specs[i].Target,
          handles |-> hs]
    ELSE LET h == handlers[GetHandler(specs[i].Operator)]
             file == Len(hs) + 1
             opened == Append(hs, [target |-> specs[i].Target,
                                   append |-> ~h.Overwrite,
                                   truncate |-> h.Overwrite,
                                   line |-> ln, closes |-> 0])
         IN  applyFromStderrTakesStdout(specs, i + 1, base,
                       IF h.stream = "Stdout"
                       THEN [bindings EXCEPT !.Stdout = FileStream(file)]
                       ELSE [bindings EXCEPT !.Stderr = FileStream(file),
                                             !.Stdout = FileStream(file)],
                       Append(cleanupFuncs, file), opened, failAt, ln)

\* applyFrom calling the opener twice for each request.
RECURSIVE applyFromOpensTwice(_, _, _, _, _, _, _, _)
applyFromOpensTwice(specs, i, base, bindings, cleanupFuncs, hs, failAt, ln) ==
    IF i > Len(specs)
    THEN [bindings |-> bindings,
          cleanup |-> [isNil |-> FALSE, funcs |-> cleanupFuncs],
          err |-> Nil, errTarget |-> <<>>, handles |-> hs]
    ELSE IF i = failAt
    THEN [bindings |-> base,
          cleanup |-> [isNil |-> TRUE, funcs |-> <<>>],
          err |-> ErrOpenFailed, errTarget |-> specs[i].Target,
          handles |-> RunCleanup(cleanupFuncs, hs)]
    ELSE IF GetHandler(specs[i].Operator) = 0
    THEN \* handler is nil: handler.Apply dereferences a nil interface
         [bindings |-> bindings,
          cleanup |-> [isNil |-> TRUE, funcs |-> <<>>],
          err |-> ErrNilHandler, errTarget |-> specs[i].Target,
          handles |-> hs]
    ELSE LET h == handlers[GetHandler(specs[i].Operator)]
             file == Len(hs) + 2
             opened == Append(Append(hs, [target |-> specs[i].Target,
                                          append |-> ~h.Overwrite,
                                          truncate |-> h.Overwrite,
                                          line |-> ln, closes |-> 0]),
                              [target |-> specs[i].Target,
                                   append |-> ~h.Overwrite,
                                   truncate |-> h.Overwrite,
                                   line |-> ln, closes |-> 0])
         IN  applyFromOpensTwice(specs, i + 1, base,
                       IF h.stream = "Stdout"
                       THEN [bindings EXCEPT !.Stdout = FileStream(file)]
                       ELSE [bindings EXCEPT !.Stderr = FileStream(file)],
                       Append(cleanupFuncs, file), opened, failAt, ln)

\* The loop of ApplyRedirections from spec i on; the failAt-th open fails
\* (0: none does).
RECURSIVE applyFrom(_, _, _, _, _, _, _, _)
applyFrom(specs, i, base, bindings, cleanupFuncs, hs, failAt, ln) ==
    IF i > Len(specs)
    THEN [bindings |-> bindings,
          cleanup |-> [isNil |-> FALSE, funcs |-> cleanupFuncs],
          err |-> Nil, errTarget |-> <<>>, handles |-> hs]
    ELSE IF i = failAt
    THEN [bindings |-> base,
          cleanup |-> [isNil |-> TRUE, funcs |-> <<>>],
          err |-> ErrOpenFailed, errTarget |-> specs[i].Target,
          handles |-> RunCleanup(cleanupFuncs, hs)]
    ELSE IF GetHandler(specs[i].Operator) = 0
    THEN \* handler is nil: handler.Apply dereferences a nil interface
         [bindings |-> bindings,
          cleanup |-> [isNil |-> TRUE, funcs |-> <<>>],
          err |-> ErrNilHandler, errTarget |-> specs[i].Target,
          handles |-> hs]
    ELSE LET h == handlers[GetHandler(specs[i].Operator)]
             file == Len(hs) + 1
             opened == Append(hs, [target |-> specs[i].Target,
                                   append |-> ~h.Overwrite,
                                   truncate |-> h.Overwrite,
                                   line |-> ln, closes |-> 0])
         IN  applyFrom(specs, i + 1, base,
                       IF h.stream = "Stdout"
                       THEN [bindings EXCEPT !.Stdout = FileStream(file)]
                       ELSE [bindings EXCEPT !.Stderr = FileStream(file)],
                       Append(cleanupFuncs, file), opened, failAt, ln)

\* ApplyRedirections on the handles hs, for the command of input line ln.
ApplyRedirections(specs, baseBindings, hs, failAt, ln) ==
    IF ValidateSpecs(specs) # Nil
    THEN [bindings |-> baseBindings,
          cleanup |-> [isNil |-> TRUE, funcs |-> <<>>],
          err |-> ValidateSpecs(specs), errTarget |-> <<>>, handles |-> hs]
    ELSE applyFrom(specs, 1, baseBindings,
                   [Stdin |-> baseBindings.Stdin, Stdout |-> baseBindings.Stdout,
                    Stderr |-> baseBindings.Stderr],
                   <<>>, hs, failAt, ln)

(***************************************************************************)
(* Parse, one rune per step.                                               *)
(***************************************************************************)
LinesUpTo(n) == UNION {[1..k -> Alphabet] : k \in 0..n}

\* The targets of the scripts' redirections.
FileNames == {<<"f">>, <<"g">>}

\* A target before the run: missing, or a file with some content.
Missing == [exists |-> FALSE, content |-> <<>>]
Old == [exists |-> TRUE, content |-> <<"o", "\n">>]

\* os.OpenFile with O_CREATE|O_WRONLY and O_TRUNC or O_APPEND, as the handle
\* hd records them: the file exists afterwards, emptied by O_TRUNC.
OpenWrite(fs, hd) ==
    IF hd.target \in DOMAIN fs
    THEN [fs EXCEPT ![hd.target] =
             [exists |-> TRUE,
              content |-> IF hd.truncate THEN <<>> ELSE @.content]]
    ELSE fs

\* The opens of the handles hs[from], hs[from + 1], ... in their order.
RECURSIVE OpenAll(_, _, _)
OpenAll(fs, hs, from) ==
    IF from > Len(hs) THEN fs
    ELSE OpenAll(OpenWrite(fs, hs[from]), hs, from + 1)

\* A write of text through the handle hd, the handle's first: at the end of
\* the file with O_APPEND, from offset 0 over what is there without.
FileWrite(fs, hd, text) ==
    IF hd.target \in DOMAIN fs
    THEN [fs EXCEPT ![hd.target].content =
             IF hd.append THEN @ \o text
             ELSE text \o SubSeq(@, Len(text) + 1, Len(@))]
    ELSE fs

\* The writes ws in their order: those to a file change the file system.
RECURSIVE WriteFiles(_, _, _)
WriteFiles(fs, hs, ws) ==
    IF ws = <<>> THEN fs
    ELSE WriteFiles(IF Head(ws).to.kind = "file"
                    THEN FileWrite(fs, hs[Head(ws).to.id], Head(ws).text)
                    ELSE fs,
                    hs, Tail(ws))

\* No call of Execute.
NoExec ==
    [called |-> FALSE, name |-> <<>>, args |-> <<>>,
     io |-> [Stdin |-> BaseStream("in"), Stdout |-> BaseStream("out"),
             Stderr |-> BaseStream("errw")],
     found |-> FALSE, run |-> "none", exitCode |-> 0, err |-> Nil,
     started |-> FALSE]

\* No call of the cd built-in.
NoCd ==
    [status |-> "idle", args |-> <<>>, home |-> <<>>, chdirResult |-> "ok",
     chdirCalled |-> FALSE, chdirPath |-> <<>>, msg |-> Nil, ret |-> Nil]

CdIdle == cdCall = NoCd

\* No call of ArgumentParser.Parse and none of ApplyRedirections.
NoResolve ==
    [tokens |-> <<>>, status |-> "idle", Args |-> <<>>,
     Redirections |-> <<>>, err |-> Nil, errOp |-> <<>>, errPos |-> 0]

ResolveIdle == res = NoResolve

NoApply ==
    [specs |-> <<>>, status |-> "idle", failAt |-> 0,
     base |-> [Stdin |-> BaseStream("in"), Stdout |-> BaseStream("out"),
               Stderr |-> BaseStream("errw")],
     bindings |-> [Stdin |-> BaseStream("in"), Stdout |-> BaseStream("out"),
                   Stderr |-> BaseStream("errw")],
     cleanup |-> [isNil |-> TRUE, funcs |-> <<>>],
     err |-> Nil, handles |-> <<>>, releases |-> 0]

ApplyIdle == app = NoApply

\* Parse is not running.
ParseIdle ==
    /\ line = <<>>
    /\ pos = 0
    /\ steps = 0
    /\ currState = stateOutside
    /\ escaping = FALSE
    /\ tokenBuffer = <<>>
    /\ args = <<>>
    /\ status = "idle"
    /\ err = Nil

\* Shell.Run is not running: Parse is called on its own.
RunIdle ==
    /\ stdin = [lines |-> <<>>, tail |-> <<>>, end |-> ErrEOF]
    /\ pc = "idle"
    /\ lineNo = 0
    /\ runLine = <<>>
    /\ parseErr = Nil
    /\ parsedArgs = <<>>
    /\ parsedCommand = [Args |-> <<>>, Redirections |-> <<>>]
    /\ ioBindings = [Stdin |-> BaseStream("in"), Stdout |-> BaseStream("out"),
                     Stderr |-> BaseStream("errw")]
    /\ cleanup = [isNil |-> TRUE, funcs |-> <<>>]
    /\ deferred = <<>>
    /\ handles = <<>>
    /\ shellOut = BaseStream("out")
    /\ shellErr = BaseStream("errw")
    /\ written = <<>>
    /\ ran = <<>>
    /\ retErr = "running"
    /\ files = [t \in FileNames |-> Missing]
    /\ exec = NoExec

ParseInit ==
    /\ RunIdle
    /\ ResolveIdle
    /\ ApplyIdle
    /\ CdIdle
    /\ line \in LinesUpTo(MaxLen)
    /\ pos = 0
    /\ steps = 0
    /\ currState = stateOutside
    /\ escaping = FALSE
    /\ tokenBuffer = <<>>
    /\ args = <<>>
    /\ status = "scanning"
    /\ err = Nil

\* One execution of the loop body: read a rune, run the handler of the state.
ParseChar ==
    /\ status = "scanning"
    /\ ~ReadRune(line, pos).eof
    /\ LET r == ReadRune(line, pos)
           h == parseSwitch(r.ch, currState, tokenBuffer, escaping, args)
       IN  /\ pos' = r.pos
           /\ currState' = h.currState
           /\ escaping' = h.escaping
           /\ tokenBuffer' = h.tokenBuffer
           /\ args' = h.args
    /\ steps' = steps + 1
    /\ UNCHANGED <<line, status, err>>
    /\ UNCHANGED <<rvars, avars>>

\* The reader reports EOF: the loop ends and Parse returns.
ParseEOF ==
    /\ status = "scanning"
    /\ ReadRune(line, pos).eof
    /\ LET e == parseEnd(currState, tokenBuffer, escaping, args)
       IN  /\ err' = e.err
           /\ args' = IF e.err = Nil THEN e.tokens ELSE args
           /\ tokenBuffer' = IF e.err = Nil THEN <<>> ELSE tokenBuffer
    /\ status' = "returned"
    /\ UNCHANGED <<line, pos, steps, currState, escaping>>
    /\ UNCHANGED <<rvars, avars>>

\* The token sequence Parse returned (nil with an error).
result == IF status = "returned" /\ err = Nil THEN args ELSE <<>>

ParseNext == ParseChar \/ ParseEOF

ParseSpec == ParseInit /\ [][ParseNext]_vars

ParseSpecFair == ParseSpec /\ WF_vars(ParseNext)

(***************************************************************************)
(* Shell.Run.                                                              *)
(***************************************************************************)
\* Lines a script holds at most.
MaxLines == 2

echo == <<"e", "c", "h", "o">>
exit == <<"e", "x", "i", "t">>
type == <<"t", "y", "p", "e">>
pwd == <<"p", "w", "d">>
cd == <<"c", "d">>
ls == <<"l", "s">>

\* The names registerBuiltins registers.
builtins == {echo, exit, type, pwd, cd}

\* The lines the scripts are made of (without their line feed).
ScriptLines ==
    { echo \o <<" ", "a">>,
      <<" ">> \o echo \o <<" ", "a", " ", " ", "b", "\t">>,
      echo \o <<" ", "a", " ", ">", " ", "f">>,
      echo \o <<" ", "a", " ", ">", ">", " ", "f">>,
      echo \o <<" ", "a", " ", "\"", ">", "\"", " ", "f">>,
      echo \o <<" ", "\\", ">", " ", "f">>,
      echo \o <<" ", ">", " ", "f", " ", "a", " ", "2", ">", ">", " ", "g">>,
      echo \o <<" ", "a", " ", ">">>,
      exit,
      exit \o <<" ", ">", " ", "f">>,
      exit \o <<" ", ">">>,
      ls,
      ls \o <<" ", ">", " ", "f">>,
      <<"'", "a">>,
      <<"a", "\\">>,
      <<"\"", "\"">>,
      <<" ", "\t">>,
      <<>> }

\* What may follow the last line feed of the input.
ScriptTails == {<<>>, exit}

ScriptsUpTo(n) == UNION {[1..k -> ScriptLines] : k \in 0..n}

\* strings.TrimSpace.
RECURSIVE TrimLeft(_)
TrimLeft(l) == IF l # <<>> /\ IsSpace(l[1]) THEN TrimLeft(Tail(l)) ELSE l

RECURSIVE TrimRight(_)
TrimRight(l) ==
    IF l # <<>> /\ IsSpace(l[Len(l)])
    THEN TrimRight(SubSeq(l, 1, Len(l) - 1))
    ELSE l

TrimSpace(l) == TrimRight(TrimLeft(l))

\* shell.in.ReadString('\n'): the next line with its line feed, or what is
\* left of the input with the reader's error.
ReadString(in) ==
    IF in.lines # <<>>
    THEN [line |-> Append(Head(in.lines), "\n"), err |-> Nil,
          in |-> [in EXCEPT !.lines = Tail(@)]]
    ELSE [line |-> in.tail, err |-> in.end, in |-> [in EXCEPT !.tail = <<>>]]

\* strings.Join(tokens, " ").
RECURSIVE Join(_)
Join(ts) ==
    IF ts = <<>> THEN <<>>
    ELSE IF Len(ts) = 1 THEN ts[1]
    ELSE ts[1] \o <<" ">> \o Join(Tail(ts))

\* A write of text to a stream.
Write(w, to, kind, text) == Append(w, [to |-> to, kind |-> kind, text |-> text])

\* The deferred calls, run last registered first.
RECURSIVE RunDeferred(_, _)
RunDeferred(ds, hs) ==
    IF ds = <<>> THEN hs
    ELSE RunDeferred(SubSeq(ds, 1, Len(ds) - 1),
                     RunCleanup(ds[Len(ds)].funcs, hs))

\* runBuiltin with echo writing to the stream given to New.
runBuiltinEchoToShell(name, as, out, errw, w) ==
    IF name = echo
    THEN [err |-> Nil, written |-> Write(w, BaseStream("out"), "echo", Append(Join(as), "\n"))]
    ELSE IF name = exit
    THEN [err |-> ErrExit, written |-> w]
    ELSE [err |-> Nil, written |-> w]

\* A built-in called with the shell's Out and Err set to out and errw: the
\* error it returns and the writes it makes.  Only the bodies of echo and
\* exit are spelled out; type, pwd and cd return nil.
runBuiltin(name, as, out, errw, w) ==
    IF name = echo
    THEN [err |-> Nil, written |-> Write(w, out, "echo", Append(Join(as), "\n"))]
    ELSE IF name = exit
    THEN [err |-> ErrExit, written |-> w]
    ELSE [err |-> Nil, written |-> w]

Init ==
    /\ line = <<>>
    /\ pos = 0
    /\ steps = 0
    /\ currState = stateOutside
    /\ escaping = FALSE
    /\ tokenBuffer = <<>>
    /\ args = <<>>
    /\ status = "idle"
    /\ err = Nil
    /\ stdin \in [lines : ScriptsUpTo(MaxLines), tail : ScriptTails,
                  end : {ErrEOF, ErrRead}]
    /\ pc = "prompt"
    /\ lineNo = 0
    /\ runLine = <<>>
    /\ parseErr = Nil
    /\ parsedArgs = <<>>
    /\ parsedCommand = [Args |-> <<>>, Redirections |-> <<>>]
    /\ ioBindings = [Stdin |-> BaseStream("in"), Stdout |-> BaseStream("out"),
                     Stderr |-> BaseStream("errw")]
    /\ cleanup = [isNil |-> TRUE, funcs |-> <<>>]
    /\ deferred = <<>>
    /\ handles = <<>>
    /\ shellOut = BaseStream("out")
    /\ shellErr = BaseStream("errw")
    /\ written = <<>>
    /\ ran = <<>>
    /\ retErr = "running"
    /\ files \in {[t \in FileNames |-> c] : c \in {Missing, Old}}
    /\ exec = NoExec
    /\ ResolveIdle
    /\ ApplyIdle
    /\ CdIdle

\* The prompt, a line read, trimmed and found blank or not.
ReadLine ==
    /\ pc = "prompt"
    /\ LET r == ReadString(stdin)
       IN  /\ r.err = Nil
           /\ stdin' = r.in
           /\ runLine' = TrimSpace(r.line)
           /\ pc' = IF TrimSpace(r.line) = <<>> THEN "prompt" ELSE "line"
    /\ written' = Write(written, shellOut, "prompt", <<"$", " ">>)
    /\ lineNo' = lineNo + 1
    /\ UNCHANGED <<parseErr, parsedArgs, parsedCommand, ioBindings, cleanup,
                   deferred, handles, shellOut, shellErr, ran, retErr>>
    /\ UNCHANGED <<files, exec>>
    /\ UNCHANGED <<pvars, avars>>

\* ReadFail taking the end of the input for a graceful exit.
ReadFailEOFGraceful ==
    /\ pc = "prompt"
    /\ LET r == ReadString(stdin)
       IN  /\ r.err # Nil
           /\ stdin' = r.in
           /\ runLine' = r.line
           /\ retErr' = IF r.err = ErrEOF THEN Nil ELSE r.err
    /\ written' = Write(written, shellOut, "prompt", <<"$", " ">>)
    /\ handles' = RunDeferred(deferred, handles)
    /\ deferred' = <<>>
    /\ pc' = "returned"
    /\ UNCHANGED <<lineNo, parseErr, parsedArgs, parsedCommand, ioBindings,
                   cleanup, shellOut, shellErr, ran>>
    /\ UNCHANGED <<files, exec>>
    /\ UNCHANGED <<pvars, avars>>

\* ReadFail going on with what the reader returned along with its error.
ReadFailRunsTail ==
    /\ pc = "prompt"
    /\ LET r == ReadString(stdin)
       IN  /\ r.err # Nil
           /\ stdin' = r.in
           /\ runLine' = r.line
           /\ IF TrimSpace(r.line) # <<>>
              THEN /\ pc' = "line"
                   /\ UNCHANGED <<retErr, handles, deferred>>
              ELSE /\ retErr' = r.err
                   /\ handles' = RunDeferred(deferred, handles)
                   /\ deferred' = <<>>
                   /\ pc' = "returned"
    /\ written' = Write(written, shellOut, "prompt", <<"$", " ">>)
    /\ UNCHANGED <<lineNo, parseErr, parsedArgs, parsedCommand, ioBindings,
                   cleanup, shellOut, shellErr, ran>>
    /\ UNCHANGED <<files, exec>>
    /\ UNCHANGED <<pvars, avars>>

\* The prompt, and a read that fails: Run returns the reader's error.
ReadFail ==
    /\ pc = "prompt"
    /\ LET r == ReadString(stdin)
       IN  /\ r.err # Nil
           /\ stdin' = r.in
           /\ runLine' = r.line
           /\ retErr' = r.err
    /\ written' = Write(written, shellOut, "prompt", <<"$", " ">>)
    /\ handles' = RunDeferred(deferred, handles)
    /\ deferred' = <<>>
    /\ pc' = "returned"
    /\ UNCHANGED <<lineNo, parseErr, parsedArgs, parsedCommand, ioBindings,
                   cleanup, shellOut, shellErr, ran>>
    /\ UNCHANGED <<files, exec>>
    /\ UNCHANGED <<pvars, avars>>

\* Tokenize reporting a parse error and going on to the next line.
TokenizeContinues ==
    /\ pc = "line"
    /\ LET r == Parse(runLine)
       IN  /\ parseErr' = r.err
           /\ parsedArgs' = r.tokens
           /\ IF r.err # Nil
              THEN /\ pc' = "prompt"
                   /\ written' = Write(written, shellErr, "parse error", <<>>)
                   /\ UNCHANGED <<retErr, handles, deferred>>
              ELSE IF Len(r.tokens) = 0
              THEN /\ retErr' = retErr
                   /\ pc' = "panicked"
                   /\ handles' = RunDeferred(deferred, handles)
                   /\ deferred' = <<>>
                   /\ written' = written
              ELSE /\ pc' = "tokenized"
                   /\ UNCHANGED <<retErr, handles, deferred, written>>
    /\ UNCHANGED <<stdin, lineNo, runLine, parsedCommand, ioBindings, cleanup,
                   shellOut, shellErr, ran>>
    /\ UNCHANGED <<files, exec>>
    /\ UNCHANGED <<pvars, avars>>

\* shell.parser.Parse(line), the return on its error, and parsedArgs[0].
Tokenize ==
    /\ pc = "line"
    /\ LET r == Parse(runLine)
       IN  /\ parseErr' = r.err
           /\ parsedArgs' = r.tokens
           /\ IF r.err # Nil
              THEN /\ retErr' = r.err
                   /\ pc' = "returned"
                   /\ handles' = RunDeferred(deferred, handles)
                   /\ deferred' = <<>>
              ELSE IF Len(r.tokens) = 0
              THEN \* index out of range: the deferred calls run, Run panics
                   /\ retErr' = retErr
                   /\ pc' = "panicked"
                   /\ handles' = RunDeferred(deferred, handles)
                   /\ deferred' = <<>>
              ELSE /\ pc' = "tokenized"
                   /\ UNCHANGED <<retErr, handles, deferred>>
    /\ UNCHANGED <<stdin, lineNo, runLine, parsedCommand, ioBindings, cleanup,
                   shellOut, shellErr, written, ran>>
    /\ UNCHANGED <<files, exec>>
    /\ UNCHANGED <<pvars, avars>>

\* Run: command and args.
command == parsedArgs[1]
runArgs == Tail(parsedArgs)

\* ResolveAndApply reporting a redirection error and going on to dispatch.
ResolveAndApplyKeepsGoing ==
    /\ pc = "tokenized"
    /\ LET p == ArgumentParserParse(runArgs)
           baseBindings == [Stdin |-> BaseStream("in"), Stdout |-> shellOut,
                            Stderr |-> shellErr]
       IN  \E failAt \in 0..Len(p.Redirections) :
             LET a == ApplyRedirections(p.Redirections, baseBindings, handles,
                                        failAt, lineNo)
             IN  /\ parsedCommand' = [Args |-> p.Args,
                                      Redirections |-> p.Redirections]
                 /\ ioBindings' = a.bindings
                 /\ cleanup' = a.cleanup
                 /\ handles' = a.handles
                 /\ files' = OpenAll(files, a.handles, Len(handles) + 1)
                 /\ IF a.err # Nil
                    THEN /\ written' = Write(written, shellErr, a.err, a.errTarget)
                         /\ pc' = "applied"
                         /\ deferred' = deferred
                    ELSE /\ written' = written
                         /\ pc' = "applied"
                         /\ deferred' = IF a.cleanup.isNil THEN deferred
                                        ELSE Append(deferred, a.cleanup)
    /\ UNCHANGED <<stdin, lineNo, runLine, parseErr, parsedArgs, shellOut,
                   shellErr, ran, retErr>>
    /\ UNCHANGED exec
    /\ UNCHANGED <<pvars, avars>>

\* ResolveAndApply without the deferred call of cleanup.
ResolveAndApplyNoDefer ==
    /\ pc = "tokenized"
    /\ LET p == ArgumentParserParse(runArgs)
           baseBindings == [Stdin |-> BaseStream("in"), Stdout |-> shellOut,
                            Stderr |-> shellErr]
       IN  \E failAt \in 0..Len(p.Redirections) :
             LET a == ApplyRedirections(p.Redirections, baseBindings, handles,
                                        failAt, lineNo)
             IN  /\ parsedCommand' = [Args |-> p.Args,
                                      Redirections |-> p.Redirections]
                 /\ ioBindings' = a.bindings
                 /\ cleanup' = a.cleanup
                 /\ handles' = a.handles
                 /\ files' = OpenAll(files, a.handles, Len(handles) + 1)
                 /\ IF a.err # Nil
                    THEN /\ written' = Write(written, shellErr, a.err, a.errTarget)
                         /\ pc' = "prompt"
                         /\ deferred' = deferred
                    ELSE /\ written' = written
                         /\ pc' = "applied"
                         /\ deferred' = deferred
    /\ UNCHANGED <<stdin, lineNo, runLine, parseErr, parsedArgs, shellOut,
                   shellErr, ran, retErr>>
    /\ UNCHANGED exec
    /\ UNCHANGED <<pvars, avars>>

\* argumentParser.Parse(args), whose error is overwritten unread, and
\* ApplyRedirections with the failAt-th open failing (0: none).
ResolveAndApply ==
    /\ pc = "tokenized"
    /\ LET p == ArgumentParserParse(runArgs)
           baseBindings == [Stdin |-> BaseStream("in"), Stdout |-> shellOut,
                            Stderr |-> shellErr]
       IN  \E failAt \in 0..Len(p.Redirections) :
             LET a == ApplyRedirections(p.Redirections, baseBindings, handles,
                                        failAt, lineNo)
             IN  /\ parsedCommand' = [Args |-> p.Args,
                                      Redirections |-> p.Redirections]
                 /\ ioBindings' = a.bindings
                 /\ cleanup' = a.cleanup
                 /\ handles' = a.handles
                 /\ files' = OpenAll(files, a.handles, Len(handles) + 1)
                 /\ IF a.err # Nil
                    THEN /\ written' = Write(written, shellErr, a.err, a.errTarget)
                         /\ pc' = "prompt"
                         /\ deferred' = deferred
                    ELSE /\ written' = written
                         /\ pc' = "applied"
                         /\ deferred' = IF a.cleanup.isNil THEN deferred
                                        ELSE Append(deferred, a.cleanup)
    /\ UNCHANGED <<stdin, lineNo, runLine, parseErr, parsedArgs, shellOut,
                   shellErr, ran, retErr>>
    /\ UNCHANGED exec
    /\ UNCHANGED <<pvars, avars>>

\* cleanup(), guarded by cleanup != nil.
CallCleanup(c, hs) == IF c.isNil THEN hs ELSE RunCleanup(c.funcs, hs)

\* DispatchBuiltin handing the tokens after the command name to the built-in.
DispatchBuiltinRawArgs ==
    /\ pc = "applied"
    /\ command \in builtins
    /\ LET prevOut == shellOut
           prevErr == shellErr
           b == runBuiltin(command, runArgs, ioBindings.Stdout,
                           ioBindings.Stderr, written)
       IN  /\ ran' = Append(ran, [line |-> lineNo, kind |-> "builtin",
                                  name |-> command, args |-> runArgs,
                                  io |-> ioBindings])
           /\ shellOut' = prevOut
           /\ shellErr' = prevErr
           /\ files' = WriteFiles(files, handles,
                                  SubSeq(b.written, Len(written) + 1,
                                         Len(b.written)))
           /\ IF b.err = ErrExit
              THEN /\ written' = b.written
                   /\ handles' = RunDeferred(deferred, CallCleanup(cleanup, handles))
                   /\ deferred' = <<>>
                   /\ retErr' = Nil
                   /\ pc' = "returned"
              ELSE /\ written' = IF b.err # Nil
                                 THEN Write(b.written, prevErr, "builtin error", <<>>)
                                 ELSE b.written
                   /\ handles' = CallCleanup(cleanup, handles)
                   /\ pc' = "prompt"
                   /\ UNCHANGED <<deferred, retErr>>
    /\ UNCHANGED <<stdin, lineNo, runLine, parseErr, parsedArgs, parsedCommand,
                   ioBindings, cleanup>>
    /\ UNCHANGED exec
    /\ UNCHANGED <<pvars, avars>>

\* DispatchBuiltin leaving Out and Err swapped after the call.
DispatchBuiltinNoRestore ==
    /\ pc = "applied"
    /\ command \in builtins
    /\ LET prevOut == shellOut
           prevErr == shellErr
           b == runBuiltin(command, parsedCommand.Args, ioBindings.Stdout,
                           ioBindings.Stderr, written)
       IN  /\ ran' = Append(ran, [line |-> lineNo, kind |-> "builtin",
                                  name |-> command, args |-> parsedCommand.Args,
                                  io |-> ioBindings])
           /\ shellOut' = ioBindings.Stdout
           /\ shellErr' = ioBindings.Stderr
           /\ files' = WriteFiles(files, handles,
                                  SubSeq(b.written, Len(written) + 1,
                                         Len(b.written)))
           /\ IF b.err = ErrExit
              THEN /\ written' = b.written
                   /\ handles' = RunDeferred(deferred, CallCleanup(cleanup, handles))
                   /\ deferred' = <<>>
                   /\ retErr' = Nil
                   /\ pc' = "returned"
              ELSE /\ written' = IF b.err # Nil
                                 THEN Write(b.written, prevErr, "builtin error", <<>>)
                                 ELSE b.written
                   /\ handles' = CallCleanup(cleanup, handles)
                   /\ pc' = "prompt"
                   /\ UNCHANGED <<deferred, retErr>>
    /\ UNCHANGED <<stdin, lineNo, runLine, parseErr, parsedArgs, parsedCommand,
                   ioBindings, cleanup>>
    /\ UNCHANGED exec
    /\ UNCHANGED <<pvars, avars>>

\* A built-in: Out and Err swapped for the call and restored, exit returning
\* nil, any other error reported, then cleanup.
DispatchBuiltin ==
    /\ pc = "applied"
    /\ command \in builtins
    /\ LET prevOut == shellOut
           prevErr == shellErr
           b == runBuiltin(command, parsedCommand.Args, ioBindings.Stdout,
                           ioBindings.Stderr, written)
       IN  /\ ran' = Append(ran, [line |-> lineNo, kind |-> "builtin",
                                  name |-> command, args |-> parsedCommand.Args,
                                  io |-> ioBindings])
           /\ shellOut' = prevOut
           /\ shellErr' = prevErr
           /\ files' = WriteFiles(files, handles,
                                  SubSeq(b.written, Len(written) + 1,
                                         Len(b.written)))
           /\ IF b.err = ErrExit
              THEN /\ written' = b.written
                   /\ handles' = RunDeferred(deferred, CallCleanup(cleanup, handles))
                   /\ deferred' = <<>>
                   /\ retErr' = Nil
                   /\ pc' = "returned"
              ELSE /\ written' = IF b.err # Nil
                                 THEN Write(b.written, prevErr, "builtin error", <<>>)
                                 ELSE b.written
                   /\ handles' = CallCleanup(cleanup, handles)
                   /\ pc' = "prompt"
                   /\ UNCHANGED <<deferred, retErr>>
    /\ UNCHANGED <<stdin, lineNo, runLine, parseErr, parsedArgs, parsedCommand,
                   ioBindings, cleanup>>
    /\ UNCHANGED exec
    /\ UNCHANGED <<pvars, avars>>

\* What externalCmd.Run can come to: the program ends with status 0, it ends
\* with another status (an *exec.ExitError), or it cannot be started.
RunResults == {"ok", "exit1", "startfail"}

\* DefaultExecutor.Execute: -1 and ErrNotFound when the lookup fails; else the
\* command is run, and Execute returns a nil error with the exit status, or
\* with -1 when Run fails otherwise.
Execute(found, run) ==
    IF ~found
    THEN [exitCode |-> -1, err |-> ErrNotFound, started |-> FALSE]
    ELSE IF run = "exit1"
    THEN [exitCode |-> 1, err |-> Nil, started |-> TRUE]
    ELSE IF run = "startfail"
    THEN [exitCode |-> -1, err |-> Nil, started |-> FALSE]
    ELSE [exitCode |-> 0, err |-> Nil, started |-> TRUE]

\* An external command: not found, or another error, is reported and the
\* loop continues; after a run, cleanup.
DispatchExternal ==
    /\ pc = "applied"
    /\ command \notin builtins
    /\ \E found \in BOOLEAN, run \in RunResults :
         LET x == Execute(found, run)
         IN  /\ exec' = [called |-> TRUE, name |-> command,
                         args |-> parsedCommand.Args, io |-> ioBindings,
                         found |-> found,
                         run |-> IF found THEN run ELSE "none",
                         exitCode |-> x.exitCode, err |-> x.err,
                         started |-> x.started]
             /\ IF x.err = ErrNotFound
                THEN /\ written' = Write(written, shellErr, "command not found",
                                         command)
                     /\ UNCHANGED <<ran, handles>>
                ELSE IF x.err # Nil
                THEN /\ written' = Write(written, shellErr,
                                         "error running command", <<>>)
                     /\ UNCHANGED <<ran, handles>>
                ELSE /\ ran' = Append(ran, [line |-> lineNo, kind |-> "external",
                                            name |-> command,
                                            args |-> parsedCommand.Args,
                                            io |-> ioBindings])
                     /\ handles' = CallCleanup(cleanup, handles)
                     /\ written' = written
    /\ pc' = "prompt"
    /\ UNCHANGED <<stdin, lineNo, runLine, parseErr, parsedArgs, parsedCommand,
                   ioBindings, cleanup, deferred, shellOut, shellErr, retErr>>
    /\ UNCHANGED files
    /\ UNCHANGED <<pvars, avars>>

Next ==
    \/ ReadLine
    \/ ReadFail
    \/ Tokenize
    \/ ResolveAndApply
    \/ DispatchBuiltin
    \/ DispatchExternal

Spec == Init /\ [][Next]_vars

(***************************************************************************)
(* ArgumentParser.Parse called on its own.                                 *)
(***************************************************************************)
\* Longest token sequence handed to ArgumentParser.Parse in ResolveSpec.
MaxTokens == 4

\* The tokens of ResolveSpec: the six operators, a word and an operator form
\* the shell does not know.
ResolveTokens ==
    operators \union {<<"a">>, <<"<">>, <<"2", ">", "&", "1">>, <<"&", ">">>}

TokensUpTo(n) == UNION {[1..k -> ResolveTokens] : k \in 0..n}

ResolveInit ==
    /\ ParseIdle
    /\ RunIdle
    /\ ApplyIdle
    /\ CdIdle
    /\ res \in {[NoResolve EXCEPT !.tokens = t, !.status = "called"] :
                   t \in TokensUpTo(MaxTokens)}

\* The call returns.
Resolve ==
    /\ res.status = "called"
    /\ LET p == ArgumentParserParse(res.tokens)
       IN  res' = [res EXCEPT !.status = "returned", !.Args = p.Args,
                              !.Redirections = p.Redirections, !.err = p.err,
                              !.errOp = p.errOp, !.errPos = p.errPos]
    /\ UNCHANGED <<pvars, rvars, app, cdCall>>

ResolveNext == Resolve

ResolveSpec == ResolveInit /\ [][ResolveNext]_vars

(***************************************************************************)
(* ApplyRedirections called on its own, and its release action called by   *)
(* the caller afterwards.                                                  *)
(***************************************************************************)
\* Most specs handed to ApplyRedirections in ApplySpec.
MaxSpecs == 2

\* Most calls of one release action.
MaxReleases == 2

\* The specs of ApplySpec: the six operators and one without a handler, an
\* empty target and two paths.
ApplyRequests ==
    {[Operator |-> o, Target |-> t, Index |-> 0] :
        o \in operators \union {<<"<">>}, t \in {<<>>, <<"f">>, <<"g">>}}

RequestsUpTo(n) == UNION {[1..k -> ApplyRequests] : k \in 0..n}

ApplyInit ==
    /\ ParseIdle
    /\ RunIdle
    /\ ResolveIdle
    /\ CdIdle
    /\ app \in {[NoApply EXCEPT !.specs = sp, !.status = "called"] :
                   sp \in RequestsUpTo(MaxSpecs)}

\* The call returns; the failAt-th open fails (0: none does).
Apply ==
    /\ app.status = "called"
    /\ \E failAt \in 0..Len(app.specs) :
         LET a == ApplyRedirections(app.specs, app.base, app.handles, failAt, 0)
         IN  app' = [app EXCEPT !.status = "returned",
                                !.failAt = IF a.err = ErrOpenFailed
                                           THEN failAt ELSE 0,
                                !.bindings = a.bindings,
                                !.cleanup = a.cleanup,
                                !.err = a.err,
                                !.handles = a.handles]
    /\ UNCHANGED <<pvars, rvars, res, cdCall>>

\* The caller calls the release action it was given.
Release ==
    /\ app.status = "returned"
    /\ ~app.cleanup.isNil
    /\ app.releases < MaxReleases
    /\ app' = [app EXCEPT !.handles = RunCleanup(app.cleanup.funcs, @),
                          !.releases = @ + 1]
    /\ UNCHANGED <<pvars, rvars, res, cdCall>>

ApplyNext == Apply \/ Release

ApplySpec == ApplyInit /\ [][ApplyNext]_vars

(***************************************************************************)
(* The cd built-in called on its own.                                      *)
(***************************************************************************)
\* The longest path argument.
MaxPath == 3

PathAlphabet == {"~", "/", "a"}

PathsUpTo(n) == UNION {[1..k -> PathAlphabet] : k \in 0..n}

\* The values of HOME: unset, or a directory.
Homes == {<<>>, <<"/", "h">>}

\* What os.Chdir will answer.
ChdirResults == {"ok", "not exist", "permission"}

\* strings.HasSuffix.
HasSuffix(str, suffix) ==
    /\ Len(str) >= Len(suffix)
    /\ SubSeq(str, Len(str) - Len(suffix) + 1, Len(str)) = suffix

\* filepath.Clean on paths without . and .. elements: runs of separators
\* become one, and a trailing separator goes unless the path is the root.
RECURSIVE Clean(_)
Clean(path) ==
    IF path = <<>> THEN <<".">>
    ELSE IF Len(path) >= 2 /\ path[1] = "/" /\ path[2] = "/"
    THEN Clean(Tail(path))
    ELSE IF Len(path) >= 2 /\ path[Len(path)] = "/"
    THEN Clean(SubSeq(path, 1, Len(path) - 1))
    ELSE IF Len(path) >= 3
            /\ \E i \in 2..(Len(path) - 1) : path[i] = "/" /\ path[i + 1] = "/"
    THEN LET i == CHOOSE i \in 2..(Len(path) - 1) :
                      path[i] = "/" /\ path[i + 1] = "/"
         IN  Clean(SubSeq(path, 1, i) \o SubSeq(path, i + 2, Len(path)))
    ELSE path

\* filepath.Join of two elements: empty elements are left out, the others
\* joined by a separator, and the result cleaned.
filepathJoin(a, b) ==
    IF a = <<>> /\ b = <<>> THEN <<>>
    ELSE IF a = <<>> THEN Clean(b)
    ELSE IF b = <<>> THEN Clean(a)
    ELSE Clean(a \o <<"/">> \o b)

\* The cd built-in with HOME = home: the path it hands to os.Chdir, if it
\* gets that far, and the message it writes to shell.Err.  It returns nil.
cdBuiltin(as, home, chdirResult) ==
    LET given == IF Len(as) = 0 THEN home ELSE as[1]
        done(called, path, msg) ==
            [chdirCalled |-> called, chdirPath |-> path, msg |-> msg, ret |-> Nil]
        chdir(target) ==
            done(TRUE, target,
                 IF chdirResult = "ok" THEN Nil
                 ELSE IF chdirResult = "not exist"
                 THEN "No such file or directory"
                 ELSE "Permission denied")
    IN  IF Len(as) = 0 /\ home = <<>>
        THEN done(FALSE, <<>>, Nil)
        ELSE IF HasSuffix(given, <<"~">>)
        THEN IF home = <<>>
             THEN done(FALSE, <<>>, "HOME not set")
             ELSE IF given = <<"~">>
             THEN chdir(home)
             ELSE IF HasSuffix(given, <<"~", "/">>)
             THEN chdir(filepathJoin(home, SubSeq(given, 3, Len(given))))
             ELSE done(FALSE, <<>>, "unsupported user expansion")
        ELSE chdir(given)

CdInit ==
    /\ ParseIdle
    /\ RunIdle
    /\ ResolveIdle
    /\ ApplyIdle
    /\ cdCall \in {[NoCd EXCEPT !.status = "called", !.args = a, !.home = h,
                                !.chdirResult = c] :
                      a \in {<<>>} \union {<<q>> : q \in PathsUpTo(MaxPath)},
                      h \in Homes, c \in ChdirResults}

\* The call returns.
Cd ==
    /\ cdCall.status = "called"
    /\ LET c == cdBuiltin(cdCall.args, cdCall.home, cdCall.chdirResult)
       IN  cdCall' = [cdCall EXCEPT !.status = "returned",
                                    !.chdirCalled = c.chdirCalled,
                                    !.chdirPath = c.chdirPath,
                                    !.msg = c.msg, !.ret = c.ret]
    /\ UNCHANGED <<pvars, rvars, res, app>>

CdNext == Cd

CdSpec == CdInit /\ [][CdNext]_vars

(***************************************************************************)
(* Properties of the tokenizer, checked under ParseSpec.                   *)
(***************************************************************************)
Range(s) == {s[i] : i \in 1..Len(s)}

Quotes == {"'", "\""}

\* The rune the next execution of the loop body reads.
NextRune == line[pos + 1]

Scanning == status = "scanning" /\ pos < Len(line)

\* C1: Parse returns ErrUnclosedQuote exactly when scanning ends in a quote
\* state (whatever the escaping flag), ErrUnescapedCharacter exactly when it
\* ends outside quotes with the escaping flag set, and otherwise no error.
C1_EndOfInput ==
    status = "returned" =>
        /\ err \in {Nil, ErrUnclosedQuote, ErrUnescapedCharacter}
        /\ (err = ErrUnclosedQuote)
               <=> (currState \in {stateSingleQuote, stateDoubleQuote})
        /\ (err = ErrUnescapedCharacter)
               <=> (currState = stateOutside /\ escaping)
        /\ (err = Nil) <=> (currState = stateOutside /\ ~escaping)

\* The line "\ ends inside double quotes with the escaping flag set.
C1_Witness ==
    /\ status = "returned"
    /\ currState = stateDoubleQuote
    /\ escaping
    /\ err = ErrUnclosedQuote

\* A line made of whitespace and empty quoted pairs only.
RECURSIVE IsBlankOrEmptyPairs(_)
IsBlankOrEmptyPairs(l) ==
    \/ l = <<>>
    \/ IsSpace(l[1]) /\ IsBlankOrEmptyPairs(Tail(l))
    \/ /\ Len(l) >= 2
       /\ l[1] \in Quotes
       /\ l[2] = l[1]
       /\ IsBlankOrEmptyPairs(SubSeq(l, 3, Len(l)))

\* C4: every token is a non-empty string, and a line of nothing but whitespace
\* and empty quoted pairs parses to no token at all.
C4_TokensNonEmpty ==
    /\ \A i \in 1..Len(args) : args[i] # <<>>
    /\ (status = "returned" /\ IsBlankOrEmptyPairs(line))
       => err = Nil /\ result = <<>>

\* a, two spaces, an empty quoted pair: one token.
C4_Witness ==
    /\ status = "returned"
    /\ err = Nil
    /\ line = <<"a", " ", " ", "'", "'">>
    /\ result = << <<"a">> >>

\* C5: in the single-quote state every rune but the closing quote is appended
\* unchanged, the state and the token list stay, and the escaping flag stays
\* clear; a quoted segment's runes arrive in the token as written.
C5_SingleQuoteStep ==
    (Scanning /\ currState = stateSingleQuote /\ NextRune # "'")
    => /\ tokenBuffer' = Append(tokenBuffer, NextRune)
       /\ currState' = stateSingleQuote
       /\ escaping' = FALSE
       /\ args' = args

C5_SingleQuoteLiteral == [][C5_SingleQuoteStep]_vars

\* '\" ' is the one token \" followed by a space.
C5_Witness ==
    /\ status = "returned"
    /\ line = <<"'", "\\", "\"", " ", "'">>
    /\ result = << <<"\\", "\"", " ">> >>

\* C6: in the double-quote state with the escaping flag set, a double quote or
\* a backslash is appended alone and any other rune is appended after a
\* backslash; the state stays and the flag is cleared.
C6_DoubleQuoteEscapeStep ==
    (Scanning /\ currState = stateDoubleQuote /\ escaping)
    => /\ tokenBuffer' =
              IF NextRune \in {"\"", "\\"}
              THEN Append(tokenBuffer, NextRune)
              ELSE tokenBuffer \o <<"\\", NextRune>>
       /\ currState' = stateDoubleQuote
       /\ escaping' = FALSE
       /\ args' = args

C6_DoubleQuoteEscape == [][C6_DoubleQuoteEscapeStep]_vars

\* After "\"\a the buffer holds the quote, then the backslash and the a.
C6_Witness ==
    /\ line = <<"\"", "\\", "\"", "\\", "a">>
    /\ pos = 5
    /\ currState = stateDoubleQuote
    /\ ~escaping
    /\ tokenBuffer = <<"\"", "\\", "a">>

\* C7: outside quotes a backslash sets the escaping flag and appends nothing,
\* and the rune after it is appended whatever it is: no token ends, no quote
\* opens.
C7_OutsideEscapeStep ==
    /\ (Scanning /\ currState = stateOutside /\ ~escaping /\ NextRune = "\\")
       => /\ escaping'
          /\ tokenBuffer' = tokenBuffer
          /\ args' = args
          /\ currState' = stateOutside
    /\ (Scanning /\ currState = stateOutside /\ escaping)
       => /\ tokenBuffer' = Append(tokenBuffer, NextRune)
          /\ args' = args
          /\ currState' = stateOutside
          /\ ~escaping'

C7_OutsideEscape == [][C7_OutsideEscapeStep]_vars

\* a\ \' is the one token a, space, quote.
C7_Witness ==
    /\ status = "returned"
    /\ line = <<"a", "\\", " ", "\\", "'">>
    /\ result = << <<"a", " ", "'">> >>

\* C8: the token list grows only at an unescaped whitespace read outside quotes
\* or at the end of input, and by the pending token; opening or closing a
\* quote leaves the pending token as it is.
C8_BoundaryStep ==
    /\ args' # args
       => /\ \/ Scanning /\ currState = stateOutside /\ ~escaping
                /\ IsSpace(NextRune)
             \/ status = "scanning" /\ pos = Len(line)
          /\ tokenBuffer # <<>>
          /\ args' = Append(args, tokenBuffer)
    /\ currState' # currState
       => tokenBuffer' = tokenBuffer /\ args' = args

C8_TokenBoundary == [][C8_BoundaryStep]_vars

\* After "a"'b the pending token is ab: the double-quoted and the
\* single-quoted segment are one token.
C8_Witness ==
    /\ line = <<"\"", "a", "\"", "'", "b">>
    /\ pos = 5
    /\ currState = stateSingleQuote
    /\ args = <<>>
    /\ tokenBuffer = <<"a", "b">>

IsClean(s) == \A i \in 1..Len(s) : ~IsSpace(s[i]) /\ s[i] \notin Quotes \union {"\\"}

\* A line that is non-empty clean tokens joined by single spaces.
IsJoinOfClean(l) ==
    /\ l # <<>>
    /\ \A i \in 1..Len(l) : l[i] \notin Quotes \union {"\\"}
    /\ ~IsSpace(l[1]) /\ ~IsSpace(l[Len(l)])
    /\ \A i \in 1..(Len(l) - 1) : ~(IsSpace(l[i]) /\ IsSpace(l[i + 1]))

\* C9: a line that is clean tokens joined by single spaces tokenizes to those
\* tokens, and re-joining and re-tokenizing the tokens of any line without
\* quotes and backslashes gives the same tokens.
C9_JoinRoundTrip ==
    status = "returned" =>
        /\ IsJoinOfClean(line)
           => /\ err = Nil
              /\ \A i \in 1..Len(result) : result[i] # <<>> /\ IsClean(result[i])
              /\ Join(result) = line
        /\ (\A i \in 1..Len(line) : line[i] \notin Quotes \union {"\\"})
           => /\ err = Nil
              /\ Parse(Join(result)) = [tokens |-> result, err |-> Nil]

\* a b a: three tokens.
C9_Witness ==
    /\ status = "returned"
    /\ line = <<"a", " ", "b", " ", "a">>
    /\ result = << <<"a">>, <<"b">>, <<"a">> >>

\* C10: each execution of the loop body consumes one rune, the reader never
\* moves back, Parse returns after as many executions as the line has runes,
\* and it does return.
C10_OneRunePerStep ==
    /\ pos' >= pos
    /\ steps' # steps => pos' = pos + 1 /\ steps' = steps + 1
    /\ status' # status => pos' = pos /\ steps' = steps

C10_Terminates ==
    /\ [](steps = pos /\ pos <= Len(line))
    /\ [](status = "returned" => steps = Len(line))
    /\ [][C10_OneRunePerStep]_vars
    /\ <>(status = "returned")

C10_Witness ==
    /\ status = "returned"
    /\ Len(line) = MaxLen
    /\ steps = MaxLen

\* C35: Parse gives for the line what it gives for the trimmed line, tokens
\* or error.
C35_TrimInvariant ==
    status = "returned"
    => LET t == Parse(TrimSpace(line))
       IN  /\ t.err = err
           /\ err = Nil => t.tokens = args

\* strings.Fields: the maximal runs of runes that are not white space.
RECURSIVE Fields(_)
Fields(l) ==
    IF l = <<>> THEN <<>>
    ELSE IF IsSpace(l[1]) THEN Fields(Tail(l))
    ELSE LET n == CHOOSE k \in 1..Len(l) :
                      /\ \A i \in 1..k : ~IsSpace(l[i])
                      /\ k = Len(l) \/ IsSpace(l[k + 1])
         IN  <<SubSeq(l, 1, n)>> \o Fields(SubSeq(l, n + 1, Len(l)))

\* C36: on a line without quotes and backslashes Parse succeeds and returns
\* the line's fields.
C36_FieldsOnPlainLines ==
    (status = "returned"
     /\ \A i \in 1..Len(line) : line[i] \notin Quotes \union {"\\"})
    => /\ err = Nil
       /\ args = Fields(line)

\* " a  b": two fields, the blanks around them gone.
C36_Witness ==
    /\ status = "returned"
    /\ line = <<" ", "a", " ", " ", "b">>
    /\ args = << <<"a">>, <<"b">> >>

\* The tokens one after the other.
RECURSIVE Concat(_)
Concat(ts) == IF ts = <<>> THEN <<>> ELSE Head(ts) \o Concat(Tail(ts))

\* A rune the tokenizer may drop.
IsDroppable(ch) == IsSpace(ch) \/ ch \in Quotes \union {"\\"}

\* c is l with some droppable runes left out.
RECURSIVE Embeds(_, _)
Embeds(c, l) ==
    IF l = <<>> THEN c = <<>>
    ELSE \/ c # <<>> /\ c[1] = l[1] /\ Embeds(Tail(c), Tail(l))
         \/ IsDroppable(l[1]) /\ Embeds(c, Tail(l))

C40_Step ==
    /\ escaping => currState # stateSingleQuote
    /\ escaping' => currState' # stateSingleQuote
    /\ (~escaping /\ escaping')
       => currState \in {stateOutside, stateDoubleQuote} /\ currState' = currState
    /\ (escaping /\ pos' = pos + 1) => ~escaping' /\ currState' = currState

C40_EscapingShortLived == [][C40_Step]_vars

\* An escape pending inside double quotes.
C40_Witness ==
    /\ status = "scanning"
    /\ escaping
    /\ currState = stateDoubleQuote

(***************************************************************************)
(* Properties of ArgumentParser.Parse, checked under ResolveSpec.          *)
(***************************************************************************)
\* The six operator strings of the interface.
SixOperators ==
    { <<">">>, <<"1", ">">>, <<">", ">">>, <<"1", ">", ">">>,
      <<"2", ">">>, <<"2", ">", ">">> }

\* The tokens of T from position i (1-based) on that are at no position of P.
RECURSIVE Remaining(_, _, _)
Remaining(T, P, i) ==
    IF i > Len(T) THEN <<>>
    ELSE (IF i \in P THEN <<>> ELSE <<T[i]>>) \o Remaining(T, P, i + 1)

\* C11: a successful result partitions the tokens: each redirection is an
\* operator, the token after it and the operator's index, the redirections
\* come in increasing position without overlap, and Args is the rest in order.
C11_Partition ==
    (res.status = "returned" /\ res.err = Nil) =>
        LET T == res.tokens
            R == res.Redirections
            P == UNION {{R[k].Index + 1, R[k].Index + 2} : k \in 1..Len(R)}
        IN  /\ \A k \in 1..Len(R) :
                  /\ R[k].Index \in 0..(Len(T) - 2)
                  /\ R[k].Operator = T[R[k].Index + 1]
                  /\ R[k].Operator \in SixOperators
                  /\ R[k].Target = T[R[k].Index + 2]
            /\ \A k \in 1..(Len(R) - 1) : R[k].Index + 2 <= R[k + 1].Index
            /\ res.Args = Remaining(T, P, 1)
            /\ \A j \in 1..Len(res.Args) : res.Args[j] \notin SixOperators
            /\ Len(res.Args) + 2 * Len(R) = Len(T)

\* > >> 2> a: the first operator takes the operator >> as its target, the
\* third token is an operator again.
C11_Witness ==
    /\ res.status = "returned"
    /\ res.tokens = << <<">">>, <<">", ">">>, <<"2", ">">>, <<"a">> >>
    /\ res.Redirections =
           << [Operator |-> <<">">>, Target |-> <<">", ">">>, Index |-> 0],
              [Operator |-> <<"2", ">">>, Target |-> <<"a">>, Index |-> 2] >>
    /\ res.Args = <<>>

\* The indices (0-based) the scan of T visits from index i on.
RECURSIVE CursorFrom(_, _)
CursorFrom(T, i) ==
    IF i >= Len(T) THEN {}
    ELSE {i} \union
         CursorFrom(T, IF T[i + 1] \in SixOperators THEN i + 2 ELSE i + 1)

\* C12: the missing-target error is returned exactly when the scan visits the
\* last index and finds an operator there, and it names that operator and
\* that index.
C12_MissingTarget ==
    res.status = "returned" =>
        LET T == res.tokens
            n == Len(T)
            atLast == n >= 1 /\ (n - 1) \in CursorFrom(T, 0)
                      /\ T[n] \in SixOperators
        IN  /\ (res.err # Nil) <=> atLast
            /\ res.err # Nil
               => /\ res.err = ErrMissingTarget
                  /\ res.errOp = T[n]
                  /\ res.errPos = n - 1

\* a >: the operator at index 1 has no target.
C12_Witness ==
    /\ res.status = "returned"
    /\ res.tokens = << <<"a">>, <<">">> >>
    /\ res.err = ErrMissingTarget
    /\ res.errOp = <<">">>
    /\ res.errPos = 1

\* Operator forms of other shells that this one does not know.
ForeignForms == {<<"<">>, <<"2", ">", "&", "1">>, <<"&", ">">>}

\* C25: the operator set is the six operators, each with exactly one handler
\* and the foreign forms with none; a token the scan visits is taken as an
\* operator exactly when it is one of the six, and the other tokens it
\* visits, the foreign forms among them, are the arguments, in order.
C25_SixOperators ==
    /\ operators = SixOperators
    /\ \A op \in SixOperators :
           Cardinality({h \in 1..Len(handlers) : CanHandle(handlers[h], op)}) = 1
    /\ \A t \in ForeignForms : GetHandler(t) = 0
    /\ res.status = "returned" =>
           LET T == res.tokens
               R == res.Redirections
               V == CursorFrom(T, 0)
               taken(i) == \/ \E k \in 1..Len(R) : R[k].Index = i
                           \/ res.err # Nil /\ res.errPos = i
               passed == {i + 1 : i \in {v \in V : T[v + 1] \notin SixOperators}}
           IN  /\ \A i \in V : taken(i) <=> T[i + 1] \in SixOperators
               /\ \A k \in 1..Len(R) : R[k].Index \in V
               /\ res.Args = Remaining(T, (1..Len(T)) \ passed, 1)

\* < 2>&1 &>: the three tokens come back as arguments, with no redirection.
C25_Witness ==
    /\ res.status = "returned"
    /\ res.tokens = << <<"<">>, <<"2", ">", "&", "1">>, <<"&", ">">> >>
    /\ res.Args = res.tokens
    /\ res.Redirections = <<>>
    /\ res.err = Nil

(***************************************************************************)
(* Properties of ApplyRedirections, checked under ApplySpec.               *)
(***************************************************************************)
\* A request that fails validation.
IsInvalid(sp) == sp.Operator \notin SixOperators \/ sp.Target = <<>>

\* C14: with an invalid request anywhere among the requests, no file is
\* opened, and the call returns an error, the base bindings and no release
\* action.
C14_ValidationFirst ==
    (app.status = "returned"
     /\ \E k \in 1..Len(app.specs) : IsInvalid(app.specs[k]))
    => /\ app.err \in {ErrUnsupportedOperator, ErrMissingRedirectDestination}
       /\ app.handles = <<>>
       /\ app.bindings = app.base
       /\ app.cleanup.isNil

\* A valid request before one whose operator has no handler.
C14_Witness ==
    /\ app.status = "returned"
    /\ app.specs = << [Operator |-> <<">">>, Target |-> <<"f">>, Index |-> 0],
                      [Operator |-> <<"<">>, Target |-> <<"g">>, Index |-> 0] >>
    /\ app.err = ErrUnsupportedOperator
    /\ app.handles = <<>>

\* C15: when the k-th open fails, exactly the k-1 earlier targets were opened
\* and each was closed once, and the call returns the base bindings and no
\* release action.
C15_OpenFailure ==
    (app.status = "returned" /\ app.err = ErrOpenFailed)
    => /\ app.failAt \in 1..Len(app.specs)
       /\ Len(app.handles) = app.failAt - 1
       /\ \A h \in 1..Len(app.handles) :
              /\ app.handles[h].target = app.specs[h].Target
              /\ app.handles[h].closes = 1
       /\ app.bindings = app.base
       /\ app.cleanup.isNil

\* The second open failed after the first succeeded.
C15_Witness ==
    /\ app.status = "returned"
    /\ app.err = ErrOpenFailed
    /\ app.failAt = 2
    /\ Len(app.handles) = 1
    /\ app.handles[1].closes = 1

\* The last request among specs whose operator is in ops (0: none).
LastOf(specs, ops) ==
    LET J == {j \in 1..Len(specs) : specs[j].Operator \in ops}
    IN  IF J = {} THEN 0 ELSE CHOOSE j \in J : \A k \in J : k <= j

StdoutOperators == {<<">">>, <<"1", ">">>, <<">", ">">>, <<"1", ">", ">">>}
StderrOperators == {<<"2", ">">>, <<"2", ">", ">">>}

\* C16: after a successful call the Stdout slot is the file of the last
\* stdout-class request, the Stderr slot the file of the last stderr-class
\* request, and a slot without a request is the base's.
C16_LastWins ==
    (app.status = "returned" /\ app.err = Nil)
    => LET o == LastOf(app.specs, StdoutOperators)
           e == LastOf(app.specs, StderrOperators)
       IN  /\ Len(app.handles) = Len(app.specs)
           /\ \A h \in 1..Len(app.handles) :
                  app.handles[h].target = app.specs[h].Target
           /\ app.bindings.Stdout =
                  IF o = 0 THEN app.base.Stdout ELSE FileStream(o)
           /\ app.bindings.Stderr =
                  IF e = 0 THEN app.base.Stderr ELSE FileStream(e)

\* > f > g: the output is bound to the file of g.
C16_Witness ==
    /\ app.status = "returned"
    /\ app.err = Nil
    /\ app.specs = << [Operator |-> <<">">>, Target |-> <<"f">>, Index |-> 0],
                      [Operator |-> <<">">>, Target |-> <<"g">>, Index |-> 0] >>
    /\ app.bindings.Stdout = FileStream(2)
    /\ app.handles[2].target = <<"g">>

\* C17: once the release action of a successful call has been called, every
\* file the call opened has been closed exactly once, however often the
\* action is called.
C17_ReleaseIdempotent ==
    (app.status = "returned" /\ app.err = Nil /\ app.releases >= 1)
    => \A h \in 1..Len(app.handles) : app.handles[h].closes = 1

\* C31: after a successful call every file it opened, the files of overridden
\* requests included, stays open until the release action is called.
C31_OpenUntilRelease ==
    (app.status = "returned" /\ app.err = Nil)
    => \A h \in 1..Len(app.handles) :
           (app.handles[h].closes = 0) <=> (app.releases = 0)

\* > f > g before any release: the file of f, no longer bound, is open.
C31_Witness ==
    /\ app.status = "returned"
    /\ app.err = Nil
    /\ app.releases = 0
    /\ Len(app.handles) = 2
    /\ app.handles[1].target = <<"f">>
    /\ app.handles[1].closes = 0
    /\ app.bindings.Stdout = FileStream(2)

\* C32: the base bindings are as the caller gave them, the returned Stdin is
\* the base's, the Stdout slot is the base's or the file of a stdout-class
\* request, and the Stderr slot the base's or the file of a stderr-class
\* request.
C32_Frame ==
    app.status = "returned"
    => /\ app.base = NoApply.base
       /\ app.bindings.Stdin = app.base.Stdin
       /\ app.bindings.Stdout \in
              {app.base.Stdout} \union
              {FileStream(j) : j \in {k \in 1..Len(app.specs) :
                                         app.specs[k].Operator \in StdoutOperators}}
       /\ app.bindings.Stderr \in
              {app.base.Stderr} \union
              {FileStream(j) : j \in {k \in 1..Len(app.specs) :
                                         app.specs[k].Operator \in StderrOperators}}

\* 2> f alone: only the Stderr slot is rebound.
C32_Witness ==
    /\ app.status = "returned"
    /\ app.err = Nil
    /\ Len(app.specs) = 1
    /\ app.specs[1].Operator = <<"2", ">">>
    /\ app.bindings.Stderr = FileStream(1)
    /\ app.bindings.Stdout = app.base.Stdout
    /\ app.bindings.Stdin = app.base.Stdin

\* C33: on success the opener was called once for each request, in the order
\* of the requests, with the flags of the request's operator.
C33_OneOpenPerRequest ==
    (app.status = "returned" /\ app.err = Nil)
    => /\ Len(app.handles) = Len(app.specs)
       /\ Len(app.cleanup.funcs) = Len(app.specs)
       /\ \A j \in 1..Len(app.specs) :
              /\ app.handles[j].target = app.specs[j].Target
              /\ app.handles[j].truncate
                     = (app.specs[j].Operator \in {<<">">>, <<"1", ">">>, <<"2", ">">>})
              /\ app.cleanup.funcs[j] = j

\* >> f 2> f: two opens of the same target, in the order of the requests.
C33_Witness ==
    /\ app.status = "returned"
    /\ app.err = Nil
    /\ Len(app.specs) = 2
    /\ app.specs[1].Operator = <<">", ">">>
    /\ app.specs[2].Operator = <<"2", ">">>
    /\ Len(app.handles) = 2
    /\ app.handles[1].target = <<"f">> /\ app.handles[1].append
    /\ app.handles[2].target = <<"f">> /\ app.handles[2].truncate

(***************************************************************************)
(* Properties of Shell.Run, checked under Spec.                            *)
(***************************************************************************)
\* C2: when tokenizing a line fails, Run has returned that error, nothing was
\* opened and nothing was run for that line, and no further line is read.
C2_TokenizeErrorFatal ==
    parseErr # Nil =>
        /\ parseErr \in {ErrUnclosedQuote, ErrUnescapedCharacter}
        /\ pc = "returned"
        /\ retErr = parseErr
        /\ \A h \in 1..Len(handles) : handles[h].line # lineNo
        /\ \A r \in 1..Len(ran) : ran[r].line # lineNo
        /\ ~ENABLED (ReadLine \/ ReadFail)

\* Run has returned the unclosed-quote error with a line still unread.
C2_Witness ==
    /\ parseErr = ErrUnclosedQuote
    /\ retErr = ErrUnclosedQuote
    /\ stdin.lines # <<>>

\* C3: a successful tokenization of a non-blank line has a first token, so
\* Run finds a command name in parsedArgs[0].
C3_FirstTokenExists ==
    (parseErr = Nil /\ pc \in {"tokenized", "applied", "panicked"})
    => (parsedArgs # <<>> /\ pc # "panicked")


\* The current line tokenizes to a command whose arguments end with a
\* redirection operator that has no target, and the resolver has been called.
MissingTargetLine ==
    LET t == Parse(runLine)
    IN  /\ lineNo > 0
        /\ pc \notin {"line", "tokenized"}
        /\ t.err = Nil
        /\ t.tokens # <<>>
        /\ ArgumentParserParse(Tail(t.tokens)).err = ErrMissingTarget

\* C13: for a line ending with a redirection operator without a target, Run
\* reports the missing-target error on the error stream, opens no file and
\* runs no command for that line, and goes on to the next line.
C13_MissingTargetAbandons ==
    MissingTargetLine
    => /\ pc = "prompt"
       /\ \A r \in 1..Len(ran) : ran[r].line # lineNo
       /\ \A h \in 1..Len(handles) : handles[h].line # lineNo
       /\ written # <<>>
       /\ written[Len(written)].to = shellErr
       /\ written[Len(written)].kind = ErrMissingTarget

\* C18: when Run has returned, every file opened for a line's redirections
\* has been closed exactly once, the deferred calls of the release actions
\* included.
C18_ReleasedOnce ==
    pc = "returned" => \A h \in 1..Len(handles) : handles[h].closes = 1

\* C19: when Run is about to read a line, every file opened for the earlier
\* lines' redirections has been closed.
C19_ClosedBeforeNextLine ==
    pc = "prompt" => \A h \in 1..Len(handles) : handles[h].closes >= 1

\* C20: Run returns nil exactly when the last command run is the built-in
\* exit on the current line; after any other built-in the loop goes on, and
\* a return caused by the input or the tokenizer carries an error.
C20_NilOnlyOnExit ==
    /\ retErr = Nil => pc = "returned"
    /\ pc = "returned"
       => (retErr = Nil
           <=> /\ ran # <<>>
               /\ ran[Len(ran)].kind = "builtin"
               /\ ran[Len(ran)].name = exit
               /\ ran[Len(ran)].line = lineNo)
    /\ \A r \in 1..Len(ran) :
           (ran[r].kind = "builtin" /\ ran[r].name # exit /\ ran[r].line = lineNo)
           => (pc = "returned" => retErr # Nil)

\* echo on the first line, exit on the second: Run has returned nil.
C20_Witness ==
    /\ pc = "returned"
    /\ retErr = Nil
    /\ lineNo = 2
    /\ Len(ran) = 2
    /\ ran[1].name = echo
    /\ ran[2].name = exit


\* The last write, if any.
LastWrite == written[Len(written)]

\* The kinds of the messages Run writes for the errors it recovers from.
RecoveredKinds ==
    {ErrOpenFailed, ErrMissingRedirectDestination, ErrUnsupportedOperator,
     ErrMissingTarget, "command not found", "builtin error",
     "error running command"}

\* C21: Run returns a non-nil error only from a failed read or a failed
\* tokenization; a line with a resolver error does not end the run, and
\* right after the report of any recovered error the loop is at the prompt,
\* about to read the next line.
C21_OnlyReadAndTokenizeEscape ==
    /\ (pc = "returned" /\ retErr # Nil)
       => \/ retErr \in {ErrEOF, ErrRead}
          \/ parseErr # Nil /\ retErr = parseErr
    /\ pc = "returned" => ~MissingTargetLine
    /\ (written # <<>> /\ LastWrite.kind \in RecoveredKinds) => pc = "prompt"

\* The step from pc = "tokenized": the resolver and ApplyRedirections.
ResolveStep == pc = "tokenized" /\ pc' # pc

\* The step from pc = "applied" for a command that is no built-in: Execute.
ExecuteStep == pc = "applied" /\ command \notin builtins /\ pc' # pc

\* The step wrote to the shell's error stream, or Run returned an error.
ReportedInStep ==
    \/ /\ Len(written') = Len(written) + 1
       /\ written'[Len(written')].to = BaseStream("errw")
    \/ pc' = "returned" /\ retErr' \notin {Nil, "running"}

\* The targets of the specs that ApplyRedirections opened in the step.
OpenedInStep == Len(handles') - Len(handles)

\* C22: a step in which the resolver, the validation or an open fails, the
\* lookup fails, or the located program cannot be started, writes a message
\* to the error stream or makes Run return the error.
C22_Step ==
    /\ ResolveStep
       => LET p == ArgumentParserParse(runArgs)
          IN  (\/ p.err # Nil
               \/ ValidateSpecs(p.Redirections) # Nil
               \/ OpenedInStep < Len(p.Redirections))
              => ReportedInStep
    /\ ExecuteStep
       => ((exec'.err # Nil \/ exec'.run = "startfail") => ReportedInStep)

C22_NoErrorDropped == [][C22_Step]_vars

\* C23: when an open fails, the step writes the error with the target's path
\* to the error stream, runs no command, leaves every file opened for the
\* line closed, and ends at the prompt.
C23_Step ==
    ResolveStep
    => LET p == ArgumentParserParse(runArgs)
       IN  (ValidateSpecs(p.Redirections) = Nil
            /\ OpenedInStep < Len(p.Redirections))
           => /\ written' = Append(written,
                      [to |-> BaseStream("errw"), kind |-> ErrOpenFailed,
                       text |-> p.Redirections[OpenedInStep + 1].Target])
              /\ ran' = ran
              /\ exec' = exec
              /\ \A h \in 1..Len(handles') :
                     handles'[h].line = lineNo => handles'[h].closes >= 1
              /\ pc' = "prompt"

C23_OpenFailureAbandons == [][C23_Step]_vars

\* echo > f a 2>> g with the open of g failing: the error names g, the file
\* of f is closed, and nothing ran.
C23_Witness ==
    /\ pc = "prompt"
    /\ lineNo = 1
    /\ written # <<>>
    /\ LastWrite.kind = ErrOpenFailed
    /\ LastWrite.text = <<"g">>
    /\ Len(handles) = 1
    /\ handles[1].target = <<"f">>
    /\ handles[1].closes = 1
    /\ ran = <<>>


\* The step from pc = "applied": the built-in call or Execute.
DispatchStep == pc = "applied" /\ pc' # pc

\* The stream of the op-class redirection that decides among the specs R,
\* whose files are the last Len(R) of hs; base without such a redirection.
BoundStream(R, ops, hs, base) ==
    IF LastOf(R, ops) = 0 THEN base
    ELSE FileStream(Len(hs) - Len(R) + LastOf(R, ops))

\* C24: the arguments handed to the built-in or to Execute are the resolver's
\* Args, which are the tokens after the command name without the operators
\* and targets the resolver consumed, and the streams handed over are those
\* of ApplyRedirections.
C24_Step ==
    DispatchStep
    => LET T == runArgs
           p == ArgumentParserParse(T)
           R == p.Redirections
           P == UNION {{R[k].Index + 1, R[k].Index + 2} : k \in 1..Len(R)}
                \union (IF p.err # Nil THEN {p.errPos + 1} ELSE {})
           handed == IF command \in builtins
                     THEN [args |-> ran'[Len(ran')].args,
                           io |-> ran'[Len(ran')].io]
                     ELSE [args |-> exec'.args, io |-> exec'.io]
       IN  /\ command \in builtins => Len(ran') = Len(ran) + 1
           /\ handed.args = p.Args
           /\ handed.args = Remaining(T, P, 1)
           /\ \A j \in 1..Len(handed.args) : handed.args[j] \notin SixOperators
           /\ handed.io =
                  [Stdin |-> BaseStream("in"),
                   Stdout |-> BoundStream(R, StdoutOperators, handles,
                                          BaseStream("out")),
                   Stderr |-> BoundStream(R, StderrOperators, handles,
                                          BaseStream("errw"))]
           /\ \A k \in 1..Len(R) :
                  handles[Len(handles) - Len(R) + k].target = R[k].Target

C24_ResolvedArgsOnly == [][C24_Step]_vars

\* echo > f a 2>> g: echo was called with a alone, its output bound to the
\* file of f and its errors to the file of g.
C24_Witness ==
    /\ ran # <<>>
    /\ parsedArgs = << echo, <<">">>, <<"f">>, <<"a">>, <<"2", ">", ">">>, <<"g">> >>
    /\ ran[Len(ran)].line = lineNo
    /\ ran[Len(ran)].args = << <<"a">> >>
    /\ ran[Len(ran)].io.Stdout = FileStream(1)
    /\ ran[Len(ran)].io.Stderr = FileStream(2)

OverwriteOperators == {<<">">>, <<"1", ">">>, <<"2", ">">>}
AppendOperators == {<<">", ">">>, <<"1", ">", ">">>, <<"2", ">", ">">>}

\* The texts of the writes ws that went to a file of target t opened for a
\* line from minLine on, one after the other.
RECURSIVE TextTo(_, _, _)
TextTo(t, minLine, ws) ==
    IF ws = <<>> THEN <<>>
    ELSE (IF /\ Head(ws).to.kind = "file"
             /\ handles[Head(ws).to.id].target = t
             /\ handles[Head(ws).to.id].line >= minLine
          THEN Head(ws).text ELSE <<>>) \o TextTo(t, minLine, Tail(ws))

\* A file that has been opened for overwriting holds what was written to it
\* from the line of its last such open on.
C26_Content ==
    \A t \in FileNames :
        LET K == {h \in 1..Len(handles) :
                     handles[h].target = t /\ handles[h].truncate}
        IN  K # {} =>
                LET k == CHOOSE h \in K : \A j \in K : j <= h
                IN  /\ files[t].exists
                    /\ files[t].content = TextTo(t, handles[k].line, written)

\* An open creates the file; it empties it for >, 1>, 2> and keeps its
\* content for >>, 1>>, 2>>; a write adds at the end; nothing else changes
\* a file.
C26_Step ==
    /\ ResolveStep
       => LET R == ArgumentParserParse(runArgs).Redirections
              n == OpenedInStep
          IN  /\ \A j \in 1..n :
                     LET hd == handles'[Len(handles) + j]
                     IN  /\ hd.target = R[j].Target
                         /\ hd.truncate = (R[j].Operator \in OverwriteOperators)
                         /\ hd.append = (R[j].Operator \in AppendOperators)
              /\ \A t \in FileNames :
                     LET new == {j \in 1..n : R[j].Target = t}
                     IN  /\ files'[t].exists = (files[t].exists \/ new # {})
                         /\ files'[t].content =
                                IF \E j \in new : R[j].Operator \in OverwriteOperators
                                THEN <<>> ELSE files[t].content
    /\ DispatchStep
       => \A t \in FileNames :
              /\ files'[t].exists = files[t].exists
              /\ files'[t].content =
                     files[t].content
                     \o TextTo(t, 0, SubSeq(written', Len(written) + 1,
                                            Len(written')))
    /\ (~ResolveStep /\ ~DispatchStep) => files' = files

C27_Step ==
    (DispatchStep /\ command = echo)
    => LET p == ArgumentParserParse(runArgs)
           R == p.Redirections
           o == LastOf(R, StdoutOperators)
           text == Join(p.Args) \o <<"\n">>
           bound == BoundStream(R, StdoutOperators, handles, BaseStream("out"))
       IN  /\ written' = Append(written,
                                [to |-> bound, kind |-> "echo", text |-> text])
           /\ o # 0
              => /\ bound # BaseStream("out")
                 /\ handles[bound.id].target = R[o].Target
                 /\ R[o].Target \in FileNames
                    => LET c == files'[R[o].Target].content
                       IN  /\ Len(c) >= Len(text)
                           /\ SubSeq(c, Len(c) - Len(text) + 1, Len(c)) = text

C27_EchoToBoundOutput == [][C27_Step]_vars

\* echo a  b with no redirection has written "a b" and a line feed to the
\* shell's output, and echo a > f has written "a" and a line feed to f only.
C27_Witness ==
    /\ Len(written) = 4
    /\ written[2] = [to |-> BaseStream("out"), kind |-> "echo",
                     text |-> <<"a", " ", "b", "\n">>]
    /\ written[4] = [to |-> FileStream(1), kind |-> "echo",
                     text |-> <<"a", "\n">>]
    /\ handles[1].target = <<"f">>

\* C30: every prompt was written to the output stream given to New, and
\* between the steps of Run Out and Err are the streams given to New.
C30_StreamsRestored ==
    /\ \A w \in 1..Len(written) :
           written[w].kind = "prompt" => written[w].to = BaseStream("out")
    /\ pc \in {"prompt", "line", "tokenized", "applied", "returned", "panicked"}
       => /\ shellOut = BaseStream("out")
          /\ shellErr = BaseStream("errw")

\* A prompt written to the shell's output right after echo wrote to a file.
C30_Witness ==
    \E w \in 1..(Len(written) - 1) :
        /\ written[w].kind = "echo"
        /\ written[w].to.kind = "file"
        /\ written[w + 1].kind = "prompt"
        /\ written[w + 1].to = BaseStream("out")
        /\ shellOut = BaseStream("out")


\* C29: Execute returns ErrNotFound exactly when the lookup fails, and then
\* starts no program; when the located program cannot be started it returns
\* another error, which is not nil.
C29_ExecuteErrors ==
    exec.called
    => /\ (exec.err = ErrNotFound) <=> ~exec.found
       /\ ~exec.found => ~exec.started /\ exec.run = "none"
       /\ (exec.found /\ exec.run = "startfail")
          => exec.err \notin {Nil, ErrNotFound}

\* C34: when Run has returned, no deferred call is pending and every file
\* opened for a redirection during the run has been closed.
C34_AllClosedAtReturn ==
    pc = "returned"
    => /\ deferred = <<>>
       /\ \A h \in 1..Len(handles) : handles[h].closes >= 1

\* ls > f with ls not found, then the end of the input: the file of f, left
\* open by the loop, is closed by the deferred call.
C34_Witness ==
    /\ pc = "returned"
    /\ exec.called
    /\ exec.err = ErrNotFound
    /\ Len(handles) = 1
    /\ handles[1].target = <<"f">>
    /\ handles[1].closes = 1

\* C38: the resolver sees the tokens as the tokenizer returned them, quotes
\* and escapes gone: every token it visits that is one of the six operators
\* is taken as an operator, and no command is handed an operator as an
\* argument.
C38_QuotingDoesNotProtect ==
    /\ \A r \in 1..Len(ran) :
           \A j \in 1..Len(ran[r].args) : ran[r].args[j] \notin SixOperators
    /\ \A j \in 1..Len(exec.args) : exec.args[j] \notin SixOperators
    /\ pc = "applied"
       => LET p == ArgumentParserParse(Tail(Parse(runLine).tokens))
          IN  /\ parsedArgs = Parse(runLine).tokens
              /\ parsedCommand.Args = p.Args
              /\ parsedCommand.Redirections = p.Redirections
              /\ \A i \in CursorFrom(runArgs, 0) :
                     runArgs[i + 1] \in SixOperators
                     => \/ \E k \in 1..Len(p.Redirections) :
                               p.Redirections[k].Index = i
                        \/ i = Len(runArgs) - 1

\* echo a ">" f: echo was called with a alone and its output bound to a file.
C38_Witness ==
    /\ runLine = echo \o <<" ", "a", " ", "\"", ">", "\"", " ", "f">>
    /\ ran # <<>>
    /\ ran[Len(ran)].line = lineNo
    /\ ran[Len(ran)].args = << <<"a">> >>
    /\ ran[Len(ran)].io.Stdout.kind = "file"
    /\ handles[ran[Len(ran)].io.Stdout.id].target = <<"f">>

\* C39: when the reader has no complete line left, Run returns the reader's
\* error, and what the reader returned with it is not tokenized, resolved or
\* run.
C39_Step ==
    (pc = "prompt" /\ stdin.lines = <<>>)
    => /\ pc' = "returned"
       /\ retErr' = stdin.end
       /\ retErr' # Nil
       /\ parseErr' = parseErr
       /\ parsedArgs' = parsedArgs
       /\ parsedCommand' = parsedCommand
       /\ ran' = ran
       /\ exec' = exec
       /\ files' = files
       /\ Len(handles') = Len(handles)

C39_EndOfInput == [][C39_Step]_vars

\* The input ended with an unterminated exit: Run returned EOF and no exit
\* was run.
C39_Witness ==
    /\ pc = "returned"
    /\ retErr = ErrEOF
    /\ runLine = exit
    /\ stdin.tail = <<>>
    /\ \A r \in 1..Len(ran) : ran[r].name # exit

(***************************************************************************)
(* Properties of the cd built-in, checked under CdSpec.                    *)
(***************************************************************************)
\* C28: with HOME set, cd ~ goes to HOME, cd ~/rest to HOME joined with
\* rest, and cd with a path without a tilde to that path as it is.
C28_TildeExpansion ==
    (cdCall.status = "returned" /\ cdCall.home # <<>> /\ Len(cdCall.args) = 1)
    => LET path == cdCall.args[1]
       IN  /\ path = <<"~">>
              => cdCall.chdirCalled /\ cdCall.chdirPath = cdCall.home
           /\ (Len(path) >= 2 /\ path[1] = "~" /\ path[2] = "/")
              => /\ cdCall.chdirCalled
                 /\ cdCall.chdirPath =
                        filepathJoin(cdCall.home, SubSeq(path, 3, Len(path)))
           /\ (\A i \in 1..Len(path) : path[i] # "~")
              => cdCall.chdirCalled /\ cdCall.chdirPath = path

====
